---- MODULE Spec2Model ----
(***************************************************************************)
(* Document indexer of the residency platform                              *)
(* (apps/api/app/services/patient_document_index.py).                      *)
(*                                                                         *)
(* The vault (files, their signatures, the event store) is the             *)
(* environment.  The catalog a cycle works on is a point-in-time snapshot  *)
(* (build_patient_catalog is called once per cycle), so a change of the    *)
(* vault during a cycle acts like the same change before the cycle (for a  *)
(* file the cycle has not reached yet) or after it; the changes of the     *)
(* vault therefore interleave with whole cycles, while callers of          *)
(* run_index_cycle and the writability of the artifact interleave with     *)
(* every step of a cycle.                                                  *)
(*                                                                         *)
(* Further state machines share the module.  PipelineSpec is the            *)
(* extraction pipeline (_extract_document_text, _extract_from_marker) with *)
(* the indexer's cycle and the job worker as concurrent callers, one tool  *)
(* invocation a step.  JobSpec is the attachment-assist job manager        *)
(* (apps/api/app/services/attachment_assist_jobs.py): its public calls,    *)
(* the steps of its worker thread, restarts from the job log and writes    *)
(* of the log that fail.  LockSpec follows the two state locks through a   *)
(* cycle of the indexer and through the worker.  RoutineSpec is the        *)
(* background loop running routine cycles for ever over a vault at rest.   *)
(* SchedSpec is start, stop and the loop threads of the indexer.           *)
(* SearchSpec applies search to bounded documents and arguments.           *)
(* PlatformSpec has the behaviours of the indexer and those of the job     *)
(* manager, one component at work at a time.                               *)
(***************************************************************************)
EXTENDS Integers, Sequences, FiniteSets, TLC

\* ---------------------------------------------------------------- bounds
NFiles == 3
MaxCycles == 2
MaxEnvChanges == 1
ConfiguredLimit == 1
MaxJobs == 2
MaxQueue == 3
MaxCalls == 4
MaxRestarts == 1
MaxLogFaults == 1
MaxThreads == 2
MaxControls == 4
MaxTicks == 2
MaxOthers == 1

\* ------------------------------------------------------- fixed vocabulary
Files == 1..NFiles
Patients == {1, 2}
Callers == {"bg", "api"}
NoTarget == 0
NoSig == 0
Null == "null"

MARKER_SUPPORTED_EXTENSIONS == {".pdf", ".png", ".jpg", ".jpeg", ".tif", ".tiff", ".bmp", ".webp"}
TEXT_EXTENSIONS == {".md", ".txt", ".csv", ".json", ".yaml", ".yml"}

\* The vault of the model: file 1 is a note, the others are scans; file 1
\* lies in the folder of patient 1, the others in that of patient 2, so
\* that a cycle targeted at patient 2 selects more scans than the smallest
\* cap allows a routine cycle.
Extension(f) == IF f = 1 THEN ".md" ELSE IF f % 2 = 0 THEN ".pdf" ELSE ".png"
PatientOf(f) == IF f <= 1 THEN 1 ELSE 2
IsText(f) == Extension(f) \in TEXT_EXTENSIONS
IsSearchable(f) == IsText(f) \/ Extension(f) \in MARKER_SUPPORTED_EXTENSIONS

ExceptionText == "unexpected error"
MissingError == "File is missing or outside vault root"
ThrottleReason == "Queued for upcoming cycle (binary extraction throttle)"

VARIABLES
    fstate,      \* file -> "none" (not in the vault) | "ok" | "missing" (listed, path fails the check)
    sig,         \* file -> signature of the file on disk (size:mtime)
    study,       \* patient -> study_id of the patient card
    front,       \* patient whose folder was updated last (first in the catalog)
    diskOk,      \* the index artifact can be written
    envLeft,     \* environment changes still allowed
    limit,       \* binary_per_cycle_limit
    index,       \* self._index
    disk,        \* the index artifact at index_path
    holder,      \* owner of _cycle_lock, or "none"
    pc,          \* caller -> position
    cyc,         \* locals of the running cycle
    now,         \* clock (_now_iso), one tick per cycle
    docs0,       \* history: documents when the running cycle took its snapshot
    calls,       \* history: files _extract_document_text was invoked on in the cycle
    touched,     \* history: files whose signature changed since the last cycle ended
    otherChange, \* history: some other change of the vault since the last cycle ended
    marker_mode, \* self._marker_mode
    pipe,        \* caller -> locals of its running _extract_document_text call
    probed,      \* history: the retry in positional style has succeeded (line 264)
    jobs,        \* self._jobs of the job manager: job id -> job
    jlog,        \* the job log at jobs_path
    queue,       \* self._queue
    jlogOk,      \* the job log can be written
    jlock,       \* owner of the job manager's self._lock, or "none"
    wpc,         \* position of the worker thread
    wjob,        \* locals of _process_job
    nextId,      \* the ids uuid4 has given out so far
    ret,         \* what the last call of the job manager's API returned or raised
    left,        \* budgets: API calls, restarts, changes of jlogOk still allowed
    returned,    \* history: ids create_job has returned
    decided,     \* history: ids set_review has recorded a decision for
    runs,        \* history: id -> runs of the extraction body since the job became queued
    slock,       \* owner of the indexer's _state_lock, or "none"
    cseg,        \* the part of run_index_cycle the cycle thread is in
    stop_event,  \* self._stop_event of the indexer is set
    thread,      \* self._thread of the indexer: the loop thread made last, or NoThread
    loop,        \* loop thread -> position
    stopped,     \* history: stop() has been called since the last call of start()
    joining,     \* a call of stop() is in thread.join
    busy,        \* a cycle of another caller holds _cycle_lock
    sleft,       \* budgets: calls of start/stop, ticks, cycles of other callers
    searchArgs,  \* the arguments and the documents of the last search() call
    matches      \* what the last search() call returned

indexerVars == <<fstate, sig, study, front, diskOk, envLeft, limit, index, disk, holder, pc,
                 cyc, now, docs0, calls, touched, otherChange>>
pipeVars == <<marker_mode, pipe, probed>>
jobVars == <<jobs, jlog, queue, jlogOk, jlock, wpc, wjob, nextId, ret, left,
             returned, decided, runs>>
jobHist == <<returned, decided, runs>>
lockVars == <<slock, cseg>>
schedVars == <<stop_event, thread, loop, stopped, joining, busy, sleft>>
searchVars == <<searchArgs, matches>>
vars == <<indexerVars, pipeVars, jobVars, lockVars, schedVars, searchVars>>
envVars == <<fstate, sig, study, front, diskOk, envLeft>>
histVars == <<docs0, calls, touched, otherChange>>

\* ------------------------------------------------------------- functions
Max(a, b) == IF a >= b THEN a ELSE b
Min(a, b) == IF a <= b THEN a ELSE b

Put(d, k, r) == [x \in (DOMAIN d) \cup {k} |-> IF x = k THEN r ELSE d[x]]
Drop(d, S) == [x \in (DOMAIN d) \ S |-> d[x]]
NoDocs == [x \in {} |-> Null]

EmptyIndex ==
    [updated_at |-> 0, last_cycle_started_at |-> 0, last_cycle_finished_at |-> 0,
     last_cycle_error |-> Null, documents |-> NoDocs]

\* _save_index (lines 165-178): what is written to the artifact, and
\* _load_index (lines 138-163): the index a new instance has from it.
IndexArtifact(ix) ==
    [version |-> 1, updated_at |-> ix.updated_at,
     last_cycle_started_at |-> ix.last_cycle_started_at,
     last_cycle_finished_at |-> ix.last_cycle_finished_at,
     last_cycle_error |-> ix.last_cycle_error, documents |-> ix.documents]
LoadIndex(artifact) ==
    [updated_at |-> artifact.updated_at,
     last_cycle_started_at |-> artifact.last_cycle_started_at,
     last_cycle_finished_at |-> artifact.last_cycle_finished_at,
     last_cycle_error |-> artifact.last_cycle_error, documents |-> artifact.documents]

\* status(): the counts by status and the cycle bookkeeping.
StatusCount(d, s) == Cardinality({k \in DOMAIN d : d[k].status = s})
Status(ix) ==
    [documents_total |-> Cardinality(DOMAIN ix.documents),
     documents_indexed |-> StatusCount(ix.documents, "indexed"),
     documents_failed |-> StatusCount(ix.documents, "failed"),
     documents_pending |-> Max(Cardinality(DOMAIN ix.documents)
                                 - StatusCount(ix.documents, "indexed")
                                 - StatusCount(ix.documents, "failed"), 0),
     last_cycle_started_at |-> ix.last_cycle_started_at,
     last_cycle_finished_at |-> ix.last_cycle_finished_at,
     last_cycle_error |-> ix.last_cycle_error,
     updated_at |-> ix.updated_at]

\* Results of one tool: the text it produced ("" for none) and its error.
ToolOk == [text |-> "body", error |-> Null]
ToolFail == [text |-> "", error |-> "tool error"]
ToolEmpty == [text |-> "", error |-> Null]
NativeResults == {ToolOk, ToolFail, ToolEmpty}
ExternalResults == {ToolOk, ToolFail}

OrElse(e, default) == IF e = Null THEN default ELSE e

\* _extract_document_text on the results the tools would give: nat for the
\* native read, mk for the primary tool, fb for the fallback of the extension.
ExtractDocumentText(isText, ext, nat, mk, fb) ==
    IF isText \/ ext \in TEXT_EXTENSIONS
    THEN IF nat.text # ""
         THEN [text |-> nat.text, extractor |-> "native_text", error |-> Null]
         ELSE [text |-> "", extractor |-> "native_text",
               error |-> OrElse(nat.error, "Unable to read text file")]
    ELSE IF ext \in MARKER_SUPPORTED_EXTENSIONS
    THEN IF mk.text # ""
         THEN [text |-> mk.text, extractor |-> "marker", error |-> Null]
         ELSE IF ext = ".pdf"
         THEN IF fb.text # ""
              THEN [text |-> fb.text, extractor |-> "pdftotext", error |-> Null]
              ELSE [text |-> "", extractor |-> "marker",
                    error |-> OrElse(mk.error, "Marker extraction failed") \o "; "
                              \o OrElse(fb.error, "pdftotext failed")]
         ELSE IF fb.text # ""
              THEN [text |-> fb.text, extractor |-> "tesseract", error |-> Null]
              ELSE [text |-> "", extractor |-> "marker",
                    error |-> OrElse(mk.error, "Marker extraction failed") \o "; "
                              \o OrElse(fb.error, "tesseract failed")]
    ELSE [text |-> "", extractor |-> "unsupported",
          error |-> "Unsupported extension for OCR indexing: " \o ext]

\* The records keep the fields the cycle decides on; the fields copied
\* from the file descriptor are left out, and so are text_chars and
\* truncated (the cut at max_document_chars, 10,000 or more, keeps text
\* that is not empty not empty).
BuildDocumentRecord(f, signature, text, extractor, t) ==
    [file_id |-> f, patient_key |-> PatientOf(f), study_id |-> study[PatientOf(f)],
     signature |-> signature, status |-> "indexed", error |-> Null,
     extractor |-> extractor, indexed_at |-> t, text |-> text]

BuildFailureRecord(f, signature, extractor, error, t) ==
    [file_id |-> f, patient_key |-> PatientOf(f), study_id |-> study[PatientOf(f)],
     signature |-> signature, status |-> "failed", error |-> error,
     extractor |-> extractor, indexed_at |-> t, text |-> ""]

BuildPendingRecord(f, signature, reason, t) ==
    [file_id |-> f, patient_key |-> PatientOf(f), study_id |-> study[PatientOf(f)],
     signature |-> signature, status |-> "pending", error |-> reason,
     extractor |-> "queued", indexed_at |-> t, text |-> ""]

\* The metadata refresh of an unchanged indexed record (existing.update).
RefreshMetadata(r, f) == [r EXCEPT !.study_id = study[PatientOf(f)]]

\* build_patient_catalog: the patients by last update, newest first, and the
\* files of a patient in their fixed order; only searchable files count.
FileSeq == [i \in 1..NFiles |-> i]
InCatalog(f) == fstate[f] # "none" /\ IsSearchable(f)
FilesOfPatient(p) == SelectSeq(FileSeq, LAMBDA f : PatientOf(f) = p /\ InCatalog(f))
OtherPatient(p) == CHOOSE q \in Patients : q # p
CatalogOrder == FilesOfPatient(front) \o FilesOfPatient(OtherPatient(front))
SearchableKeys == {f \in Files : InCatalog(f)}

NoCycle ==
    [force |-> FALSE, target_patient |-> NoTarget, target_file |-> NoTarget,
     pos |-> 0, documents |-> NoDocs, binary_extractions |-> 0,
     exc |-> Null]

Targeted == cyc.target_patient # NoTarget \/ cyc.target_file # NoTarget
\* The selection without the test of the file id.
SelectedByPatient(f) == cyc.target_patient # NoTarget => PatientOf(f) = cyc.target_patient

\* Lines 549-552.
Selected(f) ==
    /\ cyc.target_patient # NoTarget => PatientOf(f) = cyc.target_patient
    /\ cyc.target_file # NoTarget => f = cyc.target_file

\* ------------------------------------------------------------------ Init
\* Job manager (attachment_assist_jobs.py).  A job keeps the fields its
\* lifecycle decides on; section, patient_id, uploaded_file, created_at and
\* updated_at are written once or carry no decision and are left out.
JobIds == 1..MaxJobs
BlankId == 0
Stamp == "now"
LoadStamp == "at load"
NoJobs == [x \in {} |-> Null]
NoReview ==
    [status |-> "not_ready", decision |-> Null, reviewed_at |-> Null,
     reviewer_note |-> Null, applied_payload |-> Null]
NewJob ==
    [status |-> "queued", updated_at |-> Stamp, started_at |-> Null, finished_at |-> Null,
     error |-> Null, result |-> Null, review |-> NoReview]
NoLog == [torn |-> FALSE, jobs |-> NoJobs]
NoWork ==
    [id |-> BlankId, path |-> Null, analysed |-> FALSE, status |-> Null, error |-> Null,
     result |-> Null]
NoRet == [op |-> "none", id |-> BlankId, raised |-> Null, message |-> Null]

SectionError == "section must be either 'lab' or 'imaging'"
FileRefError == "uploaded_file must include file_name and stored_path"
NoFileError == "Stored upload file does not exist"
OutsideError == "Stored upload file is outside uploads root"
JobIdRequired == "job_id is required"
JobNotFound == "Job not found"
DecisionError == "decision must be 'accepted' or 'rejected'"
NotCompletedError == "Review can only be recorded for completed jobs"
WriteError == "job log cannot be written"

\* The callers of _extract_document_text: the index cycle and the worker of
\* the job manager (attachment_assist._read_text_with_indexer).
PipeCallers == {"cycle", "worker"}
FLAG_OUTPUT_DIR == "flag_output_dir"
POSITIONAL_OUTPUT_DIR == "positional_output_dir"
NoResult == [text |-> "", extractor |-> "none", error |-> Null]
NoCall ==
    [pc |-> "idle", ext |-> "", mode |-> Null, tools |-> <<>>, styles |-> <<>>,
     mk |-> ToolEmpty, out |-> NoResult, after |-> FALSE]

\* The indexer's background loop: the loop threads start() can make.
NoThread == 0
Threads == 1..MaxThreads
NoSearch == [documents |-> <<>>, query |-> <<>>, patient_key |-> Null, limit |-> 0]

Init ==
    /\ fstate = [f \in Files |-> "ok"]
    /\ sig = [f \in Files |-> 1]
    /\ study = [p \in Patients |-> 0]
    /\ front = 1
    /\ diskOk = TRUE
    /\ envLeft = MaxEnvChanges
    /\ limit = Max(ConfiguredLimit, 1)
    /\ index = EmptyIndex
    /\ disk = EmptyIndex
    /\ holder = "none"
    /\ pc = [c \in Callers |-> "idle"]
    /\ cyc = NoCycle
    /\ now = 0
    /\ docs0 = NoDocs
    /\ calls = {}
    /\ touched = {}
    /\ otherChange = FALSE
    /\ marker_mode = Null
    /\ pipe = [c \in PipeCallers |-> NoCall]
    /\ probed = FALSE
    /\ jobs = NoJobs
    /\ jlog = NoLog
    /\ queue = <<>>
    /\ jlogOk = TRUE
    /\ jlock = "none"
    /\ wpc = "idle"
    /\ wjob = NoWork
    /\ nextId = 0
    /\ ret = NoRet
    /\ left = [calls |-> MaxCalls, restarts |-> MaxRestarts, faults |-> MaxLogFaults]
    /\ returned = {}
    /\ decided = {}
    /\ runs = [i \in JobIds |-> 0]
    /\ slock = "none"
    /\ cseg = "idle"
    /\ stop_event = FALSE
    /\ thread = NoThread
    /\ loop = [t \in Threads |-> "unborn"]
    /\ stopped = FALSE
    /\ joining = FALSE
    /\ busy = FALSE
    /\ sleft = [controls |-> MaxControls, ticks |-> MaxTicks, others |-> MaxOthers]
    /\ searchArgs = NoSearch
    /\ matches = <<>>

\* ------------------------------------------------------------ environment
\* The vault changes between cycles, and only while a cycle can still follow.
EnvFree == holder = "none" /\ envLeft > 0 /\ now < MaxCycles

\* A file is rewritten: its size or modification time changes, and its
\* patient becomes the most recently updated one.
EnvTouch(f) ==
    /\ EnvFree /\ fstate[f] = "ok"
    /\ sig' = [sig EXCEPT ![f] = @ + 1]
    /\ front' = PatientOf(f)
    /\ touched' = touched \cup {f}
    /\ envLeft' = envLeft - 1
    /\ UNCHANGED <<diskOk, fstate, study, limit, index, disk, holder, pc, cyc, now,
                   docs0, calls, otherChange>>
    /\ UNCHANGED <<pipeVars, jobVars, lockVars, schedVars, searchVars>>

\* A file leaves the vault (deleted or moved away).
EnvRemove(f) ==
    /\ EnvFree /\ fstate[f] # "none"
    /\ fstate' = [fstate EXCEPT ![f] = "none"]
    /\ otherChange' = TRUE
    /\ envLeft' = envLeft - 1
    /\ UNCHANGED <<diskOk, sig, study, front, limit, index, disk, holder, pc, cyc, now,
                   docs0, calls, touched>>
    /\ UNCHANGED <<pipeVars, jobVars, lockVars, schedVars, searchVars>>

\* A listed file stops passing the path check (a link that leaves the vault
\* root, or a file deleted after the catalog was built), or passes it again.
EnvBreak(f) ==
    /\ EnvFree /\ fstate[f] \in {"ok", "missing"}
    /\ fstate' = [fstate EXCEPT ![f] = IF fstate[f] = "ok" THEN "missing" ELSE "ok"]
    /\ otherChange' = TRUE
    /\ envLeft' = envLeft - 1
    /\ UNCHANGED <<diskOk, sig, study, front, limit, index, disk, holder, pc, cyc, now,
                   docs0, calls, touched>>
    /\ UNCHANGED <<pipeVars, jobVars, lockVars, schedVars, searchVars>>

\* A submission event changes the study id of a patient card.
EnvEvent(p) ==
    /\ EnvFree
    /\ study' = [study EXCEPT ![p] = 1 - study[p]]
    /\ front' = p
    /\ otherChange' = TRUE
    /\ envLeft' = envLeft - 1
    /\ UNCHANGED <<diskOk, fstate, sig, limit, index, disk, holder, pc, cyc, now,
                   docs0, calls, touched>>
    /\ UNCHANGED <<pipeVars, jobVars, lockVars, schedVars, searchVars>>

\* The directory of the artifact stops or starts being writable (disk full,
\* permissions); this can happen at any moment, also during a cycle.
EnvDisk ==
    /\ envLeft > 0 /\ now < MaxCycles
    /\ diskOk' = ~diskOk
    /\ envLeft' = envLeft - 1
    /\ UNCHANGED <<fstate, sig, study, front, limit, index, disk, holder, pc, cyc, now,
                   histVars>>
    /\ UNCHANGED <<pipeVars, jobVars, lockVars, schedVars, searchVars>>

\* ------------------------------------------------------- run_index_cycle
\* The targets of the requests of the model: none, a patient, a file, and a
\* file together with its patient.
RequestTargets ==
    {<<NoTarget, NoTarget>>, <<2, NoTarget>>, <<NoTarget, NFiles>>,
     <<PatientOf(NFiles), NFiles>>}

\* The arguments a caller passes: the background loop runs routine cycles,
\* the reindex endpoint passes whatever the request holds.
CycleArgs(c) ==
    IF c = "bg"
    THEN {[force |-> FALSE, target_patient |-> NoTarget, target_file |-> NoTarget]}
    ELSE {[force |-> fo, target_patient |-> t[1], target_file |-> t[2]] :
             fo \in BOOLEAN, t \in RequestTargets}

StartedIndex == [index EXCEPT !.last_cycle_started_at = now + 1, !.last_cycle_error = Null]

StartedCycle(a, exc) ==
    [force |-> a.force, target_patient |-> a.target_patient, target_file |-> a.target_file,
     pos |-> 1, documents |-> index.documents, binary_extractions |-> 0,
     exc |-> exc]

\* A lock check that always succeeds (a blocking or a forgotten acquire).
LockFreeAlways == TRUE

\* Line 508: _cycle_lock.acquire(blocking=False) succeeds.
LockFree == holder = "none"

\* Lines 508-526: the lock is free; the caller takes it, stamps the start,
\* builds the catalog and copies the document map.
Acquire(c) ==
    /\ pc[c] = "idle" /\ LockFree /\ now < MaxCycles
    /\ \E a \in CycleArgs(c) : cyc' = StartedCycle(a, Null)
    /\ holder' = c
    /\ now' = now + 1
    /\ index' = StartedIndex
    /\ pc' = [pc EXCEPT ![c] = "files"]
    /\ docs0' = index.documents
    /\ calls' = {}
    /\ UNCHANGED <<envVars, limit, disk, touched, otherChange>>
    /\ UNCHANGED <<pipeVars, jobVars, lockVars, schedVars, searchVars>>

\* The same, but build_patient_catalog raises.
AcquireRaise(c) ==
    /\ pc[c] = "idle" /\ LockFree /\ now < MaxCycles
    /\ \E a \in CycleArgs(c) : cyc' = StartedCycle(a, ExceptionText)
    /\ holder' = c
    /\ now' = now + 1
    /\ index' = StartedIndex
    /\ pc' = [pc EXCEPT ![c] = "except"]
    /\ docs0' = index.documents
    /\ calls' = {}
    /\ UNCHANGED <<envVars, limit, disk, touched, otherChange>>
    /\ UNCHANGED <<pipeVars, jobVars, lockVars, schedVars, searchVars>>

\* Lines 508-510: the lock is taken; the call returns status() at once.
Rejected(c) ==
    /\ pc[c] = "idle" /\ ~LockFree
    /\ pc' = [pc EXCEPT ![c] = "returned"]
    /\ UNCHANGED <<envVars, limit, index, disk, holder, cyc, now, histVars>>
    /\ UNCHANGED <<pipeVars, jobVars, lockVars, schedVars, searchVars>>

Return(c) ==
    /\ pc[c] = "returned"
    /\ pc' = [pc EXCEPT ![c] = "idle"]
    /\ UNCHANGED <<envVars, limit, index, disk, holder, cyc, now, histVars>>
    /\ UNCHANGED <<pipeVars, jobVars, lockVars, schedVars, searchVars>>

InLoop == holder # "none" /\ pc[holder] = "files"
AtFile == InLoop /\ cyc.pos <= Len(CatalogOrder)
CurrentFile == CatalogOrder[cyc.pos]
Advance(c) == [c EXCEPT !.pos = @ + 1]
Existing(f) == cyc.documents[f]
\* The unchanged test without the comparison of the signatures.
UnchangedIgnoringSignature(f) ==
    /\ ~cyc.force
    /\ f \in DOMAIN cyc.documents
    /\ Existing(f).status = "indexed"

\* The unchanged test without the test of the status.
UnchangedAnyStatus(f) ==
    /\ ~cyc.force
    /\ f \in DOMAIN cyc.documents
    /\ Existing(f).signature = sig[f]

\* The unchanged test comparing with the signature of no file.
UnchangedNever(f) ==
    /\ ~cyc.force
    /\ f \in DOMAIN cyc.documents
    /\ Existing(f).signature = NoSig
    /\ Existing(f).status = "indexed"

Unchanged(f) ==
    /\ ~cyc.force
    /\ f \in DOMAIN cyc.documents
    /\ Existing(f).signature = sig[f]
    /\ Existing(f).status = "indexed"
\* The cap test with > for >=.
ThrottledOffByOne(f) ==
    /\ ~IsText(f)
    /\ ~cyc.force
    /\ cyc.target_patient = NoTarget
    /\ cyc.target_file = NoTarget
    /\ cyc.binary_extractions > limit

\* The cap test without the tests of the targets.
ThrottledWhenTargeted(f) ==
    /\ ~IsText(f)
    /\ ~cyc.force
    /\ cyc.binary_extractions >= limit

Throttled(f) ==
    /\ ~IsText(f)
    /\ ~cyc.force
    /\ cyc.target_patient = NoTarget
    /\ cyc.target_file = NoTarget
    /\ cyc.binary_extractions >= limit

\* Lines 549-552: the file does not match the target.
SkipFile ==
    /\ AtFile /\ ~Selected(CurrentFile)
    /\ cyc' = Advance(cyc)
    /\ UNCHANGED <<envVars, limit, index, disk, holder, pc, now, histVars>>
    /\ UNCHANGED <<pipeVars, jobVars, lockVars, schedVars, searchVars>>

\* Lines 558-567: the path is missing or leaves the vault root.
FailMissing ==
    /\ AtFile /\ Selected(CurrentFile) /\ fstate[CurrentFile] = "missing"
    /\ cyc' = [Advance(cyc) EXCEPT !.documents =
                 Put(@, CurrentFile,
                     BuildFailureRecord(CurrentFile, NoSig, "none", MissingError, now))]
    /\ UNCHANGED <<envVars, limit, index, disk, holder, pc, now, histVars>>
    /\ UNCHANGED <<pipeVars, jobVars, lockVars, schedVars, searchVars>>

\* Lines 573-597: unchanged indexed record; existing.update changes the
\* record object itself, which the index shares with the copied map.
Refresh ==
    /\ AtFile /\ Selected(CurrentFile) /\ fstate[CurrentFile] = "ok"
    /\ Unchanged(CurrentFile)
    /\ cyc' = [Advance(cyc) EXCEPT !.documents =
                 Put(@, CurrentFile, RefreshMetadata(Existing(CurrentFile), CurrentFile))]
    /\ index' = [index EXCEPT !.documents =
                   IF CurrentFile \in DOMAIN @
                   THEN Put(@, CurrentFile, RefreshMetadata(Existing(CurrentFile), CurrentFile))
                   ELSE @]
    /\ UNCHANGED <<envVars, limit, disk, holder, pc, now, histVars>>
    /\ UNCHANGED <<pipeVars, jobVars, lockVars, schedVars, searchVars>>

\* Lines 599-613: the cap of the cycle is reached.
Throttle ==
    /\ AtFile /\ Selected(CurrentFile) /\ fstate[CurrentFile] = "ok"
    /\ ~Unchanged(CurrentFile)
    /\ Throttled(CurrentFile)
    /\ cyc' = [Advance(cyc) EXCEPT !.documents =
                 Put(@, CurrentFile,
                     BuildPendingRecord(CurrentFile, sig[CurrentFile], ThrottleReason, now))]
    /\ UNCHANGED <<envVars, limit, index, disk, holder, pc, now, histVars>>
    /\ UNCHANGED <<pipeVars, jobVars, lockVars, schedVars, searchVars>>

\* The result recorded as indexed without the test of the text.
ExtractedRecordUnchecked(f, r) == BuildDocumentRecord(f, sig[f], r.text, r.extractor, now)

ExtractedRecord(f, r) ==
    IF r.text # ""
    THEN BuildDocumentRecord(f, sig[f], r.text, r.extractor, now)
    ELSE BuildFailureRecord(f, sig[f], r.extractor, OrElse(r.error, "Extraction failed"), now)

CountBinary(f, n) == IF ~IsText(f) THEN n + 1 ELSE n

\* Lines 615-635: the extraction pipeline runs and its result is recorded.
Extract ==
    /\ AtFile /\ Selected(CurrentFile) /\ fstate[CurrentFile] = "ok"
    /\ ~Unchanged(CurrentFile)
    /\ ~Throttled(CurrentFile)
    /\ \E nat \in NativeResults, mk \in ExternalResults, fb \in ExternalResults :
         cyc' = [Advance(cyc) EXCEPT
                   !.documents =
                      Put(@, CurrentFile,
                          ExtractedRecord(CurrentFile,
                              ExtractDocumentText(IsText(CurrentFile), Extension(CurrentFile),
                                                  nat, mk, fb))),
                   !.binary_extractions = CountBinary(CurrentFile, @)]
    /\ calls' = calls \cup {CurrentFile}
    /\ UNCHANGED <<envVars, limit, index, disk, holder, pc, now, docs0, touched,
                   otherChange>>
    /\ UNCHANGED <<pipeVars, jobVars, lockVars, schedVars, searchVars>>

\* An unexpected exception while a file is handled (line 652 catches it).
RaiseInFile ==
    /\ AtFile /\ Selected(CurrentFile)
    /\ cyc' = [cyc EXCEPT !.exc = ExceptionText]
    /\ pc' = [pc EXCEPT ![holder] = "except"]
    /\ UNCHANGED <<envVars, limit, index, disk, holder, now, histVars>>
    /\ UNCHANGED <<pipeVars, jobVars, lockVars, schedVars, searchVars>>

\* Eviction without the test for a targeted cycle.
EvictedAlways(d) == Drop(d, (DOMAIN d) \ SearchableKeys)

Evicted(d) == IF Targeted THEN d ELSE Drop(d, (DOMAIN d) \ SearchableKeys)

\* Lines 637-647: eviction of stale keys, then the new map and the
\* timestamps are put into the index.
Finish ==
    /\ InLoop /\ cyc.pos > Len(CatalogOrder)
    /\ index' = [index EXCEPT !.documents = Evicted(cyc.documents),
                              !.updated_at = now,
                              !.last_cycle_finished_at = now,
                              !.last_cycle_error = Null]
    /\ cyc' = [cyc EXCEPT !.documents = Evicted(cyc.documents)]
    /\ pc' = [pc EXCEPT ![holder] = "save"]
    /\ UNCHANGED <<envVars, limit, disk, holder, now, histVars>>
    /\ UNCHANGED <<pipeVars, jobVars, lockVars, schedVars, searchVars>>

\* Lines 649-650 and 660: the artifact is written, status() is returned and
\* the lock released.
SaveOk ==
    /\ holder # "none" /\ pc[holder] = "save" /\ diskOk
    /\ disk' = index
    /\ pc' = [pc EXCEPT ![holder] = "idle"]
    /\ holder' = "none"
    /\ cyc' = NoCycle
    /\ touched' = {}
    /\ otherChange' = FALSE
    /\ docs0' = NoDocs
    /\ calls' = {}
    /\ UNCHANGED <<envVars, limit, index, now>>
    /\ UNCHANGED <<pipeVars, jobVars, lockVars, schedVars, searchVars>>

\* Line 649: writing the artifact raises (OSError), inside the try block.
SaveFail ==
    /\ holder # "none" /\ pc[holder] = "save" /\ ~diskOk
    /\ cyc' = [cyc EXCEPT !.exc = ExceptionText]
    /\ pc' = [pc EXCEPT ![holder] = "except"]
    /\ UNCHANGED <<envVars, limit, index, disk, holder, now, histVars>>
    /\ UNCHANGED <<pipeVars, jobVars, lockVars, schedVars, searchVars>>

FailedIndex == [index EXCEPT !.last_cycle_finished_at = now, !.last_cycle_error = cyc.exc]

\* Lines 652-660: the handler records the error, writes the artifact,
\* returns status() and the lock is released.
ExceptSaveOk ==
    /\ holder # "none" /\ pc[holder] = "except" /\ diskOk
    /\ index' = FailedIndex
    /\ disk' = FailedIndex
    /\ pc' = [pc EXCEPT ![holder] = "idle"]
    /\ holder' = "none"
    /\ cyc' = NoCycle
    /\ touched' = {}
    /\ otherChange' = FALSE
    /\ docs0' = NoDocs
    /\ calls' = {}
    /\ UNCHANGED <<envVars, limit, now>>
    /\ UNCHANGED <<pipeVars, jobVars, lockVars, schedVars, searchVars>>

\* Lines 652-660 when _save_index raises in the handler: the exception
\* leaves run_index_cycle (the lock is released by finally); the background
\* loop has no handler and its thread ends, a request fails.
AfterRaise(c) == IF c = "bg" THEN "dead" ELSE "idle"

ExceptSaveFail ==
    /\ holder # "none" /\ pc[holder] = "except" /\ ~diskOk
    /\ index' = FailedIndex
    /\ pc' = [pc EXCEPT ![holder] = AfterRaise(holder)]
    /\ holder' = "none"
    /\ cyc' = NoCycle
    /\ touched' = {}
    /\ otherChange' = FALSE
    /\ docs0' = NoDocs
    /\ calls' = {}
    /\ UNCHANGED <<envVars, limit, disk, now>>
    /\ UNCHANGED <<pipeVars, jobVars, lockVars, schedVars, searchVars>>

Next ==
    \/ \E f \in Files : EnvTouch(f)
    \/ \E f \in Files : EnvRemove(f)
    \/ \E f \in Files : EnvBreak(f)
    \/ \E p \in Patients : EnvEvent(p)
    \/ EnvDisk
    \/ \E c \in Callers : Acquire(c)
    \/ \E c \in Callers : AcquireRaise(c)
    \/ \E c \in Callers : Rejected(c)
    \/ \E c \in Callers : Return(c)
    \/ SkipFile
    \/ FailMissing
    \/ Refresh
    \/ Throttle
    \/ Extract
    \/ RaiseInFile
    \/ Finish
    \/ SaveOk
    \/ SaveFail
    \/ ExceptSaveOk
    \/ ExceptSaveFail

Spec == Init /\ [][Next]_vars

\* ------------------------------------------- the background loop for ever
\* The loop of _background_loop with the vault at rest, the artifact
\* writable and no other caller: one routine cycle after the other.  The
\* clock stops at MaxCycles, so that the run can go on for ever in a
\* finite number of states.
Clock == IF now < MaxCycles THEN now + 1 ELSE now

\* Lines 662-665 and 508-526: the next cycle of the loop begins.
Tick ==
    /\ pc["bg"] = "idle" /\ LockFree
    /\ cyc' = [NoCycle EXCEPT !.pos = 1, !.documents = index.documents]
    /\ holder' = "bg"
    /\ now' = Clock
    /\ index' = [index EXCEPT !.last_cycle_started_at = Clock, !.last_cycle_error = Null]
    /\ pc' = [pc EXCEPT !["bg"] = "files"]
    /\ docs0' = index.documents
    /\ calls' = {}
    /\ UNCHANGED <<envVars, limit, disk, touched, otherChange>>
    /\ UNCHANGED <<pipeVars, jobVars, lockVars, schedVars, searchVars>>

RoutineNext ==
    \/ Tick
    \/ Refresh
    \/ Throttle
    \/ Extract
    \/ Finish
    \/ SaveOk

\* The loop wakes up every scan_interval_sec and every step of a cycle
\* ends (the tools have timeouts).
RoutineSpec == Init /\ [][RoutineNext]_vars /\ WF_vars(RoutineNext)

\* ---------------------------------------------------- extraction pipeline
\* _extract_document_text as it runs for one caller, one tool invocation a
\* step; _marker_mode is shared by the callers and not guarded by a lock.
PipeExtensions == {".md", ".pdf", ".png", ".docx"}

\* What one subprocess.run of the primary tool can end in: exit 0 with
\* text in the output directory, exit 0 with none, a nonzero exit with a
\* usage message, a nonzero exit with another message, OSError or timeout.
RunResults == {"text", "empty", "usage", "error", "raise"}
ExitZero(r) == r \in {"text", "empty"}
MarkerNotFound == [text |-> "", error |-> "Marker command not found"]
MarkerNoOutput ==
    [text |-> "", error |-> "Marker returned success but no text output was produced"]

\* Lines 270-274: the output directory of a run that exited 0 is read.
ReadMarkerOutput(r) == IF r = "text" THEN ToolOk ELSE MarkerNoOutput

\* The fallback is the generic OCR command whatever the extension.
FallbackToolGeneric(ext) == "tesseract"

\* Lines 394 and 400: the fallback of the extension.
FallbackTool(ext) == IF ext = ".pdf" THEN "pdftotext" ELSE "tesseract"

\* Lines 391-404: with the result of the primary tool in hand, the call
\* returns its text or goes on to the fallback.
AfterMarker(call, mk) ==
    IF mk.text # ""
    THEN [call EXCEPT !.pc = "done", !.mk = mk,
                      !.out = ExtractDocumentText(FALSE, call.ext, ToolEmpty, mk, ToolEmpty)]
    ELSE [call EXCEPT !.pc = "fallback", !.mk = mk]

\* Lines 381-390 and 406: plain text is read natively, an unsupported
\* extension returns at once, an OCR-document extension goes to the
\* primary tool.
PipeBegin(c, ext, nat) ==
    /\ pipe[c].pc = "idle"
    /\ pipe' = [pipe EXCEPT ![c] =
          IF ext \in TEXT_EXTENSIONS
          THEN [NoCall EXCEPT !.pc = "done", !.ext = ext, !.tools = <<"native_text">>,
                              !.out = ExtractDocumentText(TRUE, ext, nat, ToolEmpty, ToolEmpty)]
          ELSE IF ext \in MARKER_SUPPORTED_EXTENSIONS
          THEN [NoCall EXCEPT !.pc = "marker", !.ext = ext, !.tools = <<"marker">>,
                              !.after = probed]
          ELSE [NoCall EXCEPT !.pc = "done", !.ext = ext,
                              !.out = ExtractDocumentText(FALSE, ext, nat, ToolEmpty, ToolEmpty)]]
    /\ UNCHANGED <<marker_mode, probed, indexerVars, jobVars, lockVars, schedVars, searchVars>>

\* Lines 215-217: the command of the primary tool is not installed.
PipeMarkerMissing(c) ==
    /\ pipe[c].pc = "marker" /\ pipe[c].styles = <<>>
    /\ pipe' = [pipe EXCEPT ![c] = AfterMarker(@, MarkerNotFound)]
    /\ UNCHANGED <<marker_mode, probed, indexerVars, jobVars, lockVars, schedVars, searchVars>>

\* Line 268.
ModeAfterSuccess(mode) == FLAG_OUTPUT_DIR

\* Lines 220-268: the first run, in the remembered style (flag style when
\* none is remembered).
PipeMarkerRun(c, r) ==
    /\ pipe[c].pc = "marker" /\ pipe[c].styles = <<>>
    /\ LET mode == OrElse(marker_mode, FLAG_OUTPUT_DIR)
           call == [pipe[c] EXCEPT !.mode = mode, !.styles = <<mode>>]
       IN  IF ExitZero(r)
           THEN /\ marker_mode' = ModeAfterSuccess(mode)
                /\ pipe' = [pipe EXCEPT ![c] = AfterMarker(call, ReadMarkerOutput(r))]
           ELSE IF r = "usage" /\ mode = FLAG_OUTPUT_DIR
           THEN /\ pipe' = [pipe EXCEPT ![c] = [call EXCEPT !.pc = "retry"]]
                /\ UNCHANGED marker_mode
           ELSE /\ pipe' = [pipe EXCEPT ![c] = AfterMarker(call, ToolFail)]
                /\ UNCHANGED marker_mode
    /\ UNCHANGED <<probed, indexerVars, jobVars, lockVars, schedVars, searchVars>>

\* Lines 247-264: the retry in positional style.
PipeMarkerRetry(c, r) ==
    /\ pipe[c].pc = "retry"
    /\ LET call == [pipe[c] EXCEPT !.styles = Append(@, POSITIONAL_OUTPUT_DIR)]
       IN  IF ExitZero(r)
           THEN /\ marker_mode' = POSITIONAL_OUTPUT_DIR
                /\ probed' = TRUE
                /\ pipe' = [pipe EXCEPT ![c] = AfterMarker(call, ReadMarkerOutput(r))]
           ELSE /\ pipe' = [pipe EXCEPT ![c] = AfterMarker(call, ToolFail)]
                /\ UNCHANGED <<marker_mode, probed>>
    /\ UNCHANGED <<indexerVars, jobVars, lockVars, schedVars, searchVars>>

\* Lines 394-404: the fallback runs and the call returns.
PipeFallback(c, fb) ==
    /\ pipe[c].pc = "fallback"
    /\ pipe' = [pipe EXCEPT ![c] =
          [@ EXCEPT !.pc = "done", !.tools = Append(@, FallbackTool(pipe[c].ext)),
                    !.out = ExtractDocumentText(FALSE, pipe[c].ext, ToolEmpty, pipe[c].mk, fb)]]
    /\ UNCHANGED <<marker_mode, probed, indexerVars, jobVars, lockVars, schedVars, searchVars>>

\* The caller has its result.
PipeReturn(c) ==
    /\ pipe[c].pc = "done"
    /\ pipe' = [pipe EXCEPT ![c] = NoCall]
    /\ UNCHANGED <<marker_mode, probed, indexerVars, jobVars, lockVars, schedVars, searchVars>>

PipeNext ==
    \/ \E c \in PipeCallers, ext \in PipeExtensions, nat \in NativeResults : PipeBegin(c, ext, nat)
    \/ \E c \in PipeCallers : PipeMarkerMissing(c)
    \/ \E c \in PipeCallers, r \in RunResults : PipeMarkerRun(c, r)
    \/ \E c \in PipeCallers, r \in RunResults : PipeMarkerRetry(c, r)
    \/ \E c \in PipeCallers, fb \in ExternalResults : PipeFallback(c, fb)
    \/ \E c \in PipeCallers : PipeReturn(c)

PipelineSpec == Init /\ [][PipeNext]_vars

\* ------------------------------------------------------------ job manager
\* create_job, set_review and retry_job hold self._lock (an RLock) for their
\* whole critical section and are one step each; the worker holds it when
\* it marks a job and when it finalizes one, and runs the extraction in
\* between.  A write of the job log raises while the log is not writable
\* (jlogOk).
SectionInputs == {"lab", " Imaging ", "notes"}
FileInputs == {"upload", "noref", "nonexistent", "outside"}
DecisionInputs == {"accepted", " Rejected ", "maybe"}
NoteInputs == {Null, "  ", "note"}
PayloadInputs == {Null, "payload"}
IdInputs == 0..MaxJobs
Analyses == {"ok", "failed", "raise"}
UploadStates == {"inside", "missing", "outside"}
IdSeq == [i \in 1..MaxJobs |-> i]

\* strip().lower() on the inputs above.
Normalized(x) ==
    IF x = " Imaging " THEN "imaging" ELSE IF x = " Rejected " THEN "rejected" ELSE x

\* (reviewer_note or "").strip() or None
NormalizedNote(n) == IF n = "  " THEN Null ELSE n

SetJob(js, id, job) == [x \in (DOMAIN js) \cup {id} |-> IF x = id THEN job ELSE js[x]]
Raised(op, id, exc, msg) == [op |-> op, id |-> id, raised |-> exc, message |-> msg]
Returned(op, id) == [op |-> op, id |-> id, raised |-> Null, message |-> Null]

\* _save (lines 65-74): the whole map is written.
Saved(js) == [torn |-> FALSE, jobs |-> js]

\* The job kept as the log has it.
LoadedJobAsSaved(job) == job

\* _load (lines 33-63): a missing or unreadable log gives no jobs; a job
\* persisted as queued or processing is queued and its updated_at is the
\* time of the load.
LoadedJob(job) ==
    IF job.status \in {"queued", "processing"}
    THEN [job EXCEPT !.status = "queued", !.updated_at = LoadStamp]
    ELSE job
LoadJobs(log) ==
    IF log.torn THEN NoJobs ELSE [x \in DOMAIN log.jobs |-> LoadedJob(log.jobs[x])]
LoadQueue(log) ==
    IF log.torn THEN <<>>
    ELSE SelectSeq(IdSeq, LAMBDA i : i \in DOMAIN log.jobs
                                      /\ log.jobs[i].status \in {"queued", "processing"})

\* list_jobs (lines 145-167): the jobs of the status asked for, newest
\* first (ids are given out in the order of created_at), at most
\* max(1, min(limit, 300)) of them.  The filter by patient_id reads a field
\* that no operation changes and is left out.
StatusFilters == {Null, "queued", " Processing ", "completed", "failed"}
StatusToken(st) == IF st = Null THEN "" ELSE IF st = " Processing " THEN "processing" ELSE st
MaxListedJobs == 300
ListCap(lim) == Max(1, Min(lim, MaxListedJobs))

RECURSIVE JobRows(_, _, _)
JobRows(js, st, id) ==
    IF id = 0 THEN <<>>
    ELSE (IF id \in DOMAIN js /\ (StatusToken(st) = "" \/ js[id].status = StatusToken(st))
          THEN <<[job_id |-> id, job |-> js[id]]>> ELSE <<>>)
         \o JobRows(js, st, id - 1)

ListJobs(js, st, lim) ==
    SubSeq(JobRows(js, st, MaxJobs), 1, Min(Len(JobRows(js, st, MaxJobs)), ListCap(lim)))

ApiFree == jlock = "none" /\ left.calls > 0
Called == [left EXCEPT !.calls = @ - 1]

\* Lines 99-109 and 90-96: the checks of create_job, in their order.
CreateJobError(section, file) ==
    IF Normalized(section) \notin {"lab", "imaging"} THEN SectionError
    ELSE IF file = "noref" THEN FileRefError
    ELSE IF file = "nonexistent" THEN NoFileError
    ELSE IF file = "outside" THEN OutsideError
    ELSE Null

CreateJobInvalid(section, file) ==
    /\ ApiFree
    /\ CreateJobError(section, file) # Null
    /\ ret' = Raised("create_job", BlankId, "ValueError", CreateJobError(section, file))
    /\ left' = Called
    /\ UNCHANGED <<jobs, jlog, queue, jlogOk, jlock, wpc, wjob, nextId, jobHist>>
    /\ UNCHANGED <<indexerVars, pipeVars, lockVars, schedVars, searchVars>>

\* Lines 111-143: the job is stored, the log written, the id enqueued.
CreateJob(section, file) ==
    /\ ApiFree /\ jlogOk
    /\ CreateJobError(section, file) = Null
    /\ nextId < MaxJobs /\ Len(queue) < MaxQueue
    /\ nextId' = nextId + 1
    /\ jobs' = SetJob(jobs, nextId', NewJob)
    /\ jlog' = Saved(jobs')
    /\ queue' = Append(queue, nextId')
    /\ ret' = Returned("create_job", nextId')
    /\ returned' = returned \cup {nextId'}
    /\ runs' = [runs EXCEPT ![nextId'] = 0]
    /\ left' = Called
    /\ UNCHANGED <<jlogOk, jlock, wpc, wjob, decided>>
    /\ UNCHANGED <<indexerVars, pipeVars, lockVars, schedVars, searchVars>>

\* Lines 138-141 when _save raises: the job is in self._jobs already.
CreateJobWriteFails(section, file) ==
    /\ ApiFree /\ ~jlogOk
    /\ CreateJobError(section, file) = Null
    /\ nextId < MaxJobs
    /\ nextId' = nextId + 1
    /\ jobs' = SetJob(jobs, nextId', NewJob)
    /\ ret' = Raised("create_job", BlankId, "OSError", WriteError)
    /\ runs' = [runs EXCEPT ![nextId'] = 0]
    /\ left' = Called
    /\ UNCHANGED <<jlog, queue, jlogOk, jlock, wpc, wjob, returned, decided>>
    /\ UNCHANGED <<indexerVars, pipeVars, lockVars, schedVars, searchVars>>

NoExc == [raised |-> Null, message |-> Null]
Exc(type, msg) == [raised |-> type, message |-> msg]

\* The decision is checked after the job is looked up.
SetReviewErrorIdFirst(id, decision) ==
    IF id = BlankId THEN Exc("KeyError", JobIdRequired)
    ELSE IF id \notin DOMAIN jobs THEN Exc("KeyError", JobNotFound)
    ELSE IF jobs[id].status # "completed" THEN Exc("ValueError", NotCompletedError)
    ELSE IF Normalized(decision) \notin {"accepted", "rejected"}
    THEN Exc("ValueError", DecisionError)
    ELSE NoExc

\* Lines 185-199: the checks of set_review, in their order.
SetReviewError(id, decision) ==
    IF id = BlankId THEN Exc("KeyError", JobIdRequired)
    ELSE IF Normalized(decision) \notin {"accepted", "rejected"}
    THEN Exc("ValueError", DecisionError)
    ELSE IF id \notin DOMAIN jobs THEN Exc("KeyError", JobNotFound)
    ELSE IF jobs[id].status # "completed" THEN Exc("ValueError", NotCompletedError)
    ELSE NoExc

SetReviewInvalid(id, decision) ==
    /\ ApiFree
    /\ SetReviewError(id, decision) # NoExc
    /\ LET e == SetReviewError(id, decision)
       IN  ret' = Raised("set_review", id, e.raised, e.message)
    /\ left' = Called
    /\ UNCHANGED <<jobs, jlog, queue, jlogOk, jlock, wpc, wjob, nextId, jobHist>>
    /\ UNCHANGED <<indexerVars, pipeVars, lockVars, schedVars, searchVars>>

\* Lines 201-214.
Reviewed(job, decision, note, payload) ==
    [job EXCEPT !.review =
        [status |-> Normalized(decision), decision |-> Normalized(decision),
         reviewed_at |-> Stamp, reviewer_note |-> NormalizedNote(note),
         applied_payload |-> OrElse(payload, "{}")],
                !.updated_at = Stamp]

\* Lines 193-220; when _save raises the review stays in self._jobs.
SetReview(id, decision, note, payload) ==
    /\ ApiFree
    /\ SetReviewError(id, decision) = NoExc
    /\ jobs' = SetJob(jobs, id, Reviewed(jobs[id], decision, note, payload))
    /\ decided' = decided \cup {id}
    /\ IF jlogOk
       THEN jlog' = Saved(jobs') /\ ret' = Returned("set_review", id)
       ELSE UNCHANGED jlog /\ ret' = Raised("set_review", id, "OSError", WriteError)
    /\ left' = Called
    /\ UNCHANGED <<queue, jlogOk, jlock, wpc, wjob, nextId, returned, runs>>
    /\ UNCHANGED <<indexerVars, pipeVars, lockVars, schedVars, searchVars>>

\* Lines 223-230: the checks of retry_job.
RetryJobError(id) ==
    IF id = BlankId THEN Exc("KeyError", JobIdRequired)
    ELSE IF id \notin DOMAIN jobs THEN Exc("KeyError", JobNotFound)
    ELSE NoExc

RetryJobInvalid(id) ==
    /\ ApiFree
    /\ RetryJobError(id) # NoExc
    /\ ret' = Raised("retry_job", id, RetryJobError(id).raised, RetryJobError(id).message)
    /\ left' = Called
    /\ UNCHANGED <<jobs, jlog, queue, jlogOk, jlock, wpc, wjob, nextId, jobHist>>
    /\ UNCHANGED <<indexerVars, pipeVars, lockVars, schedVars, searchVars>>

\* Lines 232-244.
Reset(job) ==
    [job EXCEPT !.status = "queued", !.updated_at = Stamp, !.started_at = Null,
                !.finished_at = Null, !.error = Null, !.result = Null, !.review = NoReview]

WorkerOn(id) == wpc \in {"marked", "extract", "final"} /\ wjob.id = id

\* History of retry_job: a job that was neither queued nor in the
\* worker's hands starts a new stay in the queued status.
RetryHistory(id) ==
    runs' = [runs EXCEPT ![id] = IF jobs[id].status = "queued" \/ WorkerOn(id) THEN @ ELSE 0]

\* Lines 227-249: the job is reset, the log written, the id enqueued.
RetryJob(id) ==
    /\ ApiFree /\ jlogOk
    /\ RetryJobError(id) = NoExc
    /\ Len(queue) < MaxQueue
    /\ jobs' = SetJob(jobs, id, Reset(jobs[id]))
    /\ jlog' = Saved(jobs')
    /\ queue' = Append(queue, id)
    /\ ret' = Returned("retry_job", id)
    /\ RetryHistory(id)
    /\ left' = Called
    /\ UNCHANGED <<jlogOk, jlock, wpc, wjob, nextId, returned, decided>>
    /\ UNCHANGED <<indexerVars, pipeVars, lockVars, schedVars, searchVars>>

\* Lines 232-247 when _save raises: the reset stays in self._jobs and the
\* id is not enqueued.
RetryJobWriteFails(id) ==
    /\ ApiFree /\ ~jlogOk
    /\ RetryJobError(id) = NoExc
    /\ jobs' = SetJob(jobs, id, Reset(jobs[id]))
    /\ ret' = Raised("retry_job", id, "OSError", WriteError)
    /\ RetryHistory(id)
    /\ left' = Called
    /\ UNCHANGED <<jlog, queue, jlogOk, jlock, wpc, wjob, nextId, returned, decided>>
    /\ UNCHANGED <<indexerVars, pipeVars, lockVars, schedVars, searchVars>>

\* Any job the worker dequeues is taken.
TakeableAnyStatus(id) == id \in DOMAIN jobs

\* Lines 261-265: the worker takes a job only in status queued.
Takeable(id) == id \in DOMAIN jobs /\ jobs[id].status = "queued"

\* Lines 254-265: the id dequeued is of no job or of a job that is not
\* queued; _process_job returns.
WorkerSkip ==
    /\ wpc = "idle" /\ jlock = "none" /\ queue # <<>>
    /\ ~Takeable(Head(queue))
    /\ queue' = Tail(queue)
    /\ UNCHANGED <<jobs, jlog, jlogOk, jlock, wpc, wjob, nextId, ret, left, jobHist>>
    /\ UNCHANGED <<indexerVars, pipeVars, lockVars, schedVars, searchVars>>

\* Lines 267-272.
Marked(job) ==
    [job EXCEPT !.status = "processing", !.started_at = Stamp, !.updated_at = Stamp,
                !.error = Null]

\* Lines 254-274: the job is marked and the log written, under the lock.
\* When _save raises, the exception leaves _process_job and _worker_loop.
WorkerMark ==
    /\ wpc = "idle" /\ jlock = "none" /\ queue # <<>>
    /\ Takeable(Head(queue))
    /\ queue' = Tail(queue)
    /\ jobs' = SetJob(jobs, Head(queue), Marked(jobs[Head(queue)]))
    /\ wjob' = [NoWork EXCEPT !.id = Head(queue)]
    /\ IF jlogOk
       THEN jlog' = Saved(jobs') /\ jlock' = "worker" /\ wpc' = "marked"
       ELSE UNCHANGED <<jlog, jlock>> /\ wpc' = "dead"
    /\ UNCHANGED <<jlogOk, nextId, ret, left, jobHist>>
    /\ UNCHANGED <<indexerVars, pipeVars, lockVars, schedVars, searchVars>>

\* The lock stays with the worker during the extraction.
LockKept == "worker"

\* Line 274 to 276: the with block ends.
LockAfterMark == "none"

WorkerUnlock ==
    /\ wpc = "marked"
    /\ jlock' = LockAfterMark
    /\ wpc' = "extract"
    /\ runs' = [runs EXCEPT ![wjob.id] = @ + 1]
    /\ UNCHANGED <<jobs, jlog, queue, jlogOk, wjob, nextId, ret, left, returned,
                   decided>>
    /\ UNCHANGED <<indexerVars, pipeVars, lockVars, schedVars, searchVars>>

\* The stored upload is used without the check.
EnsureUploadPathUnchecked(u) == Null

\* _ensure_upload_path (lines 90-96) on the stored upload as it is when the
\* worker resolves it.
EnsureUploadPath(u) ==
    IF u = "missing" THEN NoFileError ELSE IF u = "outside" THEN OutsideError ELSE Null

\* Lines 276-291: the extraction body; what it leaves in status, error
\* and analysis.
\* analyze_ingestion_attachment is called (analysed) only when
\* _ensure_upload_path has returned; its ValueError is caught at line 288.
Analysed(id, u, a) ==
    IF EnsureUploadPath(u) # Null
    THEN [id |-> id, path |-> u, analysed |-> FALSE, status |-> "failed",
          error |-> EnsureUploadPath(u), result |-> Null]
    ELSE [id |-> id, path |-> u, analysed |-> TRUE,
          status |-> IF a = "ok" THEN "completed" ELSE "failed",
          error |-> IF a = "ok" THEN Null
                    ELSE IF a = "failed" THEN "Unable to extract text from uploaded report"
                    ELSE ExceptionText,
          result |-> IF a = "raise" THEN Null ELSE "analysis"]

WorkerExtract(u, a) ==
    /\ wpc = "extract"
    /\ wjob' = Analysed(wjob.id, u, a)
    /\ wpc' = "final"
    /\ UNCHANGED <<jobs, jlog, queue, jlogOk, jlock, nextId, ret, left, jobHist>>
    /\ UNCHANGED <<indexerVars, pipeVars, lockVars, schedVars, searchVars>>

\* The review is pending whatever the final status.
FinalizedAlwaysPending(job, w) ==
    [job EXCEPT !.status = w.status, !.finished_at = Stamp, !.updated_at = Stamp,
                !.error = w.error,
                !.result = w.result, !.review.status = "pending_review"]

\* Lines 299-309.
Finalized(job, w) ==
    [job EXCEPT !.status = w.status, !.finished_at = Stamp, !.updated_at = Stamp,
                !.error = w.error,
                !.result = w.result,
                !.review.status = IF w.status = "completed" THEN "pending_review"
                                  ELSE "not_ready"]

\* Lines 293-313: the job is finalized and the log written, under the lock.
WorkerFinalize ==
    /\ wpc = "final" /\ jlock \in {"none", "worker"}
    /\ jobs' = IF wjob.id \in DOMAIN jobs
               THEN SetJob(jobs, wjob.id, Finalized(jobs[wjob.id], wjob))
               ELSE jobs
    /\ IF wjob.id \notin DOMAIN jobs THEN UNCHANGED jlog /\ wpc' = "idle"
       ELSE IF jlogOk THEN jlog' = Saved(jobs') /\ wpc' = "idle"
       ELSE UNCHANGED jlog /\ wpc' = "dead"
    /\ jlock' = "none"
    /\ wjob' = NoWork
    /\ UNCHANGED <<queue, jlogOk, nextId, ret, left, jobHist>>
    /\ UNCHANGED <<indexerVars, pipeVars, lockVars, schedVars, searchVars>>

\* A new manager is constructed from the log (lines 15-27) and started.
Constructed(log) ==
    /\ jobs' = LoadJobs(log)
    /\ queue' = LoadQueue(log)
    /\ jlock' = "none"
    /\ wpc' = "idle"
    /\ wjob' = NoWork
    /\ ret' = NoRet
    /\ runs' = [i \in JobIds |-> 0]
    /\ left' = [left EXCEPT !.restarts = @ - 1]

\* The process stops between two steps and is started again.
Restart ==
    /\ left.restarts > 0
    /\ Constructed(jlog)
    /\ UNCHANGED <<jlog, jlogOk, nextId, returned, decided>>
    /\ UNCHANGED <<indexerVars, pipeVars, lockVars, schedVars, searchVars>>

\* A write of the log is about to happen.
SaveImminent ==
    \/ wpc = "final"
    \/ wpc = "idle" /\ queue # <<>> /\ Takeable(Head(queue))
    \/ left.calls > 0 /\ (nextId < MaxJobs \/ DOMAIN jobs # {})

\* Line 74: write_text truncates the file and then writes; the process
\* stops in between and is started again on the truncated log.
RestartInSave ==
    /\ left.restarts > 0 /\ jlogOk /\ SaveImminent
    /\ jlog' = [torn |-> TRUE, jobs |-> NoJobs]
    /\ Constructed(jlog')
    /\ UNCHANGED <<jlogOk, nextId, returned, decided>>
    /\ UNCHANGED <<indexerVars, pipeVars, lockVars, schedVars, searchVars>>

\* The log becomes unwritable (disk full, directory removed) or writable.
EnvLog ==
    /\ left.faults > 0
    /\ jlogOk' = ~jlogOk
    /\ left' = [left EXCEPT !.faults = @ - 1]
    /\ UNCHANGED <<jobs, jlog, queue, jlock, wpc, wjob, nextId, ret, jobHist>>
    /\ UNCHANGED <<indexerVars, pipeVars, lockVars, schedVars, searchVars>>

JobNext ==
    \/ \E sec \in SectionInputs, file \in FileInputs : CreateJobInvalid(sec, file)
    \/ \E sec \in SectionInputs, file \in FileInputs : CreateJob(sec, file)
    \/ \E id \in IdInputs, d \in DecisionInputs : SetReviewInvalid(id, d)
    \/ \E id \in IdInputs, d \in DecisionInputs, n \in NoteInputs, pl \in PayloadInputs :
          SetReview(id, d, n, pl)
    \/ \E id \in IdInputs : RetryJobInvalid(id)
    \/ \E id \in IdInputs : RetryJob(id)
    \/ WorkerSkip
    \/ WorkerMark
    \/ WorkerUnlock
    \/ \E u \in UploadStates, a \in Analyses : WorkerExtract(u, a)
    \/ WorkerFinalize
    \/ Restart
    \/ RestartInSave
    \/ EnvLog
    \/ \E sec \in SectionInputs, file \in FileInputs : CreateJobWriteFails(sec, file)
    \/ \E id \in IdInputs : RetryJobWriteFails(id)

JobSpec == Init /\ [][JobNext]_vars

\* ------------------------------------------- the two components side by side
\* The indexer and the job manager share no state that their path checks
\* read.  PlatformSpec has the behaviours in which one of the two works while
\* the other is as it was constructed: every behaviour of Spec and every
\* behaviour of JobSpec.
IndexerAsConstructed ==
    /\ holder = "none" /\ now = 0 /\ envLeft = MaxEnvChanges /\ diskOk
    /\ index = EmptyIndex /\ \A c \in Callers : pc[c] = "idle"

JobsAsConstructed ==
    /\ nextId = 0 /\ jobs = NoJobs /\ jlogOk
    /\ left = [calls |-> MaxCalls, restarts |-> MaxRestarts, faults |-> MaxLogFaults]

PlatformNext ==
    \/ \E f \in Files : JobsAsConstructed /\ EnvTouch(f)
    \/ \E f \in Files : JobsAsConstructed /\ EnvRemove(f)
    \/ \E f \in Files : JobsAsConstructed /\ EnvBreak(f)
    \/ \E p \in Patients : JobsAsConstructed /\ EnvEvent(p)
    \/ JobsAsConstructed /\ EnvDisk
    \/ \E c \in Callers : JobsAsConstructed /\ Acquire(c)
    \/ \E c \in Callers : JobsAsConstructed /\ AcquireRaise(c)
    \/ \E c \in Callers : JobsAsConstructed /\ Rejected(c)
    \/ \E c \in Callers : JobsAsConstructed /\ Return(c)
    \/ JobsAsConstructed /\ SkipFile
    \/ JobsAsConstructed /\ FailMissing
    \/ JobsAsConstructed /\ Refresh
    \/ JobsAsConstructed /\ Throttle
    \/ JobsAsConstructed /\ Extract
    \/ JobsAsConstructed /\ RaiseInFile
    \/ JobsAsConstructed /\ Finish
    \/ JobsAsConstructed /\ SaveOk
    \/ JobsAsConstructed /\ SaveFail
    \/ JobsAsConstructed /\ ExceptSaveOk
    \/ JobsAsConstructed /\ ExceptSaveFail
    \/ \E sec \in SectionInputs, file \in FileInputs :
          IndexerAsConstructed /\ CreateJobInvalid(sec, file)
    \/ \E sec \in SectionInputs, file \in FileInputs :
          IndexerAsConstructed /\ CreateJob(sec, file)
    \/ \E id \in IdInputs, d \in DecisionInputs :
          IndexerAsConstructed /\ SetReviewInvalid(id, d)
    \/ \E id \in IdInputs, d \in DecisionInputs, n \in NoteInputs, pl \in PayloadInputs :
          IndexerAsConstructed /\ SetReview(id, d, n, pl)
    \/ \E id \in IdInputs : IndexerAsConstructed /\ RetryJobInvalid(id)
    \/ \E id \in IdInputs : IndexerAsConstructed /\ RetryJob(id)
    \/ IndexerAsConstructed /\ WorkerSkip
    \/ IndexerAsConstructed /\ WorkerMark
    \/ IndexerAsConstructed /\ WorkerUnlock
    \/ \E u \in UploadStates, a \in Analyses : IndexerAsConstructed /\ WorkerExtract(u, a)
    \/ IndexerAsConstructed /\ WorkerFinalize
    \/ IndexerAsConstructed /\ Restart
    \/ IndexerAsConstructed /\ RestartInSave
    \/ IndexerAsConstructed /\ EnvLog
    \/ \E sec \in SectionInputs, file \in FileInputs :
          IndexerAsConstructed /\ CreateJobWriteFails(sec, file)
    \/ \E id \in IdInputs : IndexerAsConstructed /\ RetryJobWriteFails(id)

PlatformSpec == Init /\ [][PlatformNext]_vars

\* ------------------------------------------------------------------ locks
\* run_index_cycle by the parts that are inside and outside a
\* "with self._state_lock" block, beside the readers of the index and the
\* worker of the job manager.
CycleParts ==
    {"idle", "bookkeeping", "catalog", "snapshot", "files", "extracting", "commit",
     "failing", "saving", "writing", "status"}

\* Lines 514-516, 522-523, 643-647, 654-656, 167-175 and 683-701.
CycleLocked == {"bookkeeping", "snapshot", "commit", "failing", "saving", "status"}

\* The order of the parts: lines 513-526, the loop over the files with the
\* extraction at line 615, the commit or the except handler, _save_index
\* and status().
CycleFlow(part) ==
    CASE part = "idle" -> {"bookkeeping"}
      [] part = "bookkeeping" -> {"catalog"}
      [] part = "catalog" -> {"snapshot", "failing"}
      [] part = "snapshot" -> {"files"}
      [] part = "files" -> {"extracting", "commit", "failing"}
      [] part = "extracting" -> {"files", "failing"}
      [] part = "commit" -> {"saving"}
      [] part = "failing" -> {"saving"}
      [] part = "saving" -> {"writing"}
      [] part = "writing" -> {"status"}
      [] part = "status" -> {"idle"}

\* The cycle thread goes on to the next part; it waits for the state lock
\* where the part is inside a with block.
CycleStep(part) ==
    /\ part \in CycleFlow(cseg)
    /\ part \in CycleLocked => slock \in {"none", "cycle"}
    /\ cseg' = part
    /\ slock' = IF part \in CycleLocked THEN "cycle"
                ELSE IF slock = "cycle" THEN "none" ELSE slock
    /\ UNCHANGED <<indexerVars, pipeVars, jobVars, schedVars, searchVars>>

\* status(), search() and the other queries (lines 683, 714, 931-1061)
\* take the state lock for their snapshot.
ReaderEnter ==
    /\ slock = "none"
    /\ slock' = "reader"
    /\ UNCHANGED <<cseg, indexerVars, pipeVars, jobVars, schedVars, searchVars>>

ReaderLeave ==
    /\ slock = "reader"
    /\ slock' = "none"
    /\ UNCHANGED <<cseg, indexerVars, pipeVars, jobVars, schedVars, searchVars>>

LockNext ==
    \/ \E part \in CycleParts : CycleStep(part)
    \/ ReaderEnter
    \/ ReaderLeave
    \/ \E sec \in SectionInputs, file \in FileInputs : CreateJob(sec, file)
    \/ \E id \in IdInputs : RetryJob(id)
    \/ WorkerSkip
    \/ WorkerMark
    \/ WorkerUnlock
    \/ \E u \in UploadStates, a \in Analyses : WorkerExtract(u, a)
    \/ WorkerFinalize

LockSpec == Init /\ [][LockNext]_vars

\* ------------------------------------------------------------------ search
\* search (lines 703-760) as a function of the documents of the index, in
\* the order of the dict, and of its arguments.  A string is a sequence
\* of characters; of a document the fields search reads are kept.
Lower(ch) == IF ch = "A" THEN "a" ELSE IF ch = "B" THEN "b" ELSE ch
LowerStr(str) == [i \in 1..Len(str) |-> Lower(str[i])]
IsSpace(ch) == ch \in {" ", "\n"}

\* str.strip()
RECURSIVE Strip(_)
Strip(str) ==
    IF str = <<>> THEN <<>>
    ELSE IF IsSpace(Head(str)) THEN Strip(Tail(str))
    ELSE IF IsSpace(str[Len(str)]) THEN Strip(SubSeq(str, 1, Len(str) - 1))
    ELSE str

\* The length of the word at the head of the string.
RECURSIVE WordLen(_)
WordLen(str) ==
    IF str = <<>> \/ IsSpace(Head(str)) THEN 0 ELSE 1 + WordLen(Tail(str))

\* str.split(): the words between runs of white space.
RECURSIVE Split(_)
Split(str) ==
    IF str = <<>> THEN <<>>
    ELSE IF IsSpace(Head(str)) THEN Split(Tail(str))
    ELSE <<SubSeq(str, 1, WordLen(str))>> \o Split(SubSeq(str, WordLen(str) + 1, Len(str)))

\* Lines 704-710.
Tokens(query) == Split(LowerStr(Strip(query)))

StartsAt(str, t, i) == i + Len(t) - 1 <= Len(str) /\ SubSeq(str, i, i + Len(t) - 1) = t

\* token in string
Contains(str, t) == \E i \in 1..Len(str) : StartsAt(str, t, i)

\* str.count(token): the occurrences from left to right that do not
\* overlap.
RECURSIVE CountFrom(_, _, _)
CountFrom(str, t, i) ==
    IF i + Len(t) - 1 > Len(str) THEN 0
    ELSE IF StartsAt(str, t, i) THEN 1 + CountFrom(str, t, i + Len(t))
    ELSE CountFrom(str, t, i + 1)
Count(str, t) == CountFrom(str, t, 1)

\* (patient_key or "").strip().lower() and str(...).lower() of the keys.
LowerKey(k) == IF k = Null THEN "" ELSE IF k \in {" P1 ", "P1"} THEN "p1" ELSE k

\* Line 726.
SearchBlob(d) == LowerStr(d.file_name \o <<"\n">> \o d.text)

\* Lines 717-728: the document is a match.
IsMatch(d, tokens, target) ==
    /\ d.status = "indexed"
    /\ target # "" => LowerKey(d.patient_key) = target
    /\ d.text # <<>>
    /\ \A i \in 1..Len(tokens) : Contains(SearchBlob(d), tokens[i])

FileNameBonus == 5

\* Lines 730-734.
RECURSIVE Score(_, _)
Score(d, tokens) ==
    IF tokens = <<>> THEN 0
    ELSE Count(SearchBlob(d), Head(tokens))
         + (IF Contains(LowerStr(d.file_name), Head(tokens)) THEN FileNameBonus ELSE 0)
         + Score(d, Tail(tokens))

\* Lines 736-757: the row of a match.
Row(d, tokens) ==
    [file_id |-> d.file_id, patient_key |-> d.patient_key, file_name |-> d.file_name,
     score |-> Score(d, tokens), updated_at |-> d.updated_at]

\* The order by the score alone.
KeyGreaterEqByScore(a, b) == a.score >= b.score

\* Line 759: the key (score, updated_at) of a row is not below that of b.
KeyGreaterEq(a, b) ==
    a.score > b.score \/ (a.score = b.score /\ a.updated_at >= b.updated_at)

\* Line 759: list.sort(key, reverse=True) keeps rows of equal keys in
\* their order.
RECURSIVE InsertRow(_, _)
InsertRow(rows, r) ==
    IF rows = <<>> THEN <<r>>
    ELSE IF KeyGreaterEq(Head(rows), r) THEN <<Head(rows)>> \o InsertRow(Tail(rows), r)
    ELSE <<r>> \o rows

RECURSIVE SortRows(_)
SortRows(rows) ==
    IF rows = <<>> THEN <<>>
    ELSE InsertRow(SortRows(SubSeq(rows, 1, Len(rows) - 1)), rows[Len(rows)])

MaxSearchResults == 200

\* Line 760: max(1, min(limit, 200))
ResultCap(lim) == Max(1, Min(lim, MaxSearchResults))

RECURSIVE MatchRows(_, _, _)
MatchRows(documents, tokens, target) ==
    IF documents = <<>> THEN <<>>
    ELSE (IF IsMatch(Head(documents), tokens, target)
          THEN <<Row(Head(documents), tokens)>> ELSE <<>>)
         \o MatchRows(Tail(documents), tokens, target)

Search(documents, query, patient_key, lim) ==
    IF Tokens(query) = <<>> THEN <<>>
    ELSE LET rows == SortRows(MatchRows(documents, Tokens(query), LowerKey(patient_key)))
         IN  SubSeq(rows, 1, Min(Len(rows), ResultCap(lim)))

\* The inputs: three documents, of which an indexed one has a text and a
\* failed one has none.
FileNames == {<<"a", "b">>, <<"B">>}
Texts == {<<"a", "a", "a">>, <<"A", "b">>, <<"b", "a", "b">>}
SearchPatient(f) == IF f = 1 THEN "P1" ELSE "p2"
Stamps(f) == IF f = 1 THEN {1} ELSE {1, 2}
DocumentChoices(f) ==
    {[file_id |-> f, patient_key |-> SearchPatient(f), file_name |-> n, status |-> "indexed",
      text |-> t, updated_at |-> u] : n \in FileNames, t \in Texts, u \in Stamps(f)}
    \cup {[file_id |-> f, patient_key |-> SearchPatient(f), file_name |-> <<"B">>,
           status |-> "failed", text |-> <<>>, updated_at |-> 1]}
Queries ==
    {<<>>, <<" ", " ">>, <<"a">>, <<"A", "a">>, <<" ", "b", " ">>, <<"a", " ", "b">>,
     <<"b", " ", "B">>}
PatientKeys == {Null, " P1 ", "p2"}
Limits == {0, 2, 250}

SearchCall(d1, d2, d3, query, patient_key, lim) ==
    /\ searchArgs' = [documents |-> <<d1, d2, d3>>, query |-> query,
                      patient_key |-> patient_key, limit |-> lim]
    /\ matches' = Search(<<d1, d2, d3>>, query, patient_key, lim)
    /\ UNCHANGED <<indexerVars, pipeVars, jobVars, lockVars, schedVars>>

\* One call in a behaviour: search reads the index and changes nothing.
SearchNext ==
    /\ searchArgs = NoSearch
    /\ \E d1 \in DocumentChoices(1), d2 \in DocumentChoices(2), d3 \in DocumentChoices(3),
          query \in Queries, patient_key \in PatientKeys, lim \in Limits :
           SearchCall(d1, d2, d3, query, patient_key, lim)

SearchSpec == Init /\ [][SearchNext]_vars

\* --------------------------------------------------------- background loop
\* start, stop and _background_loop (lines 662-680).  A loop thread is
\* "started" (made by start(), before its first call of run_index_cycle),
\* "cycle" (in a cycle, with _cycle_lock), "waiting" (in _stop_event.wait),
\* "ticked" (wait has returned False after the interval) or "dead".  The
\* cycle itself is the one of Spec and is a single stay here.
Alive(t) == t # NoThread /\ loop[t] \notin {"unborn", "dead"}

\* Lines 667-674, under _state_lock: nothing when the thread is alive,
\* else the event is cleared and a new loop thread is made.
Start ==
    /\ ~joining /\ sleft.controls > 0
    /\ ~Alive(thread) => thread < MaxThreads
    /\ IF Alive(thread)
       THEN UNCHANGED <<stop_event, thread, loop>>
       ELSE /\ stop_event' = FALSE
            /\ thread' = thread + 1
            /\ loop' = [loop EXCEPT ![thread + 1] = "started"]
    /\ stopped' = FALSE
    /\ sleft' = [sleft EXCEPT !.controls = @ - 1]
    /\ UNCHANGED <<joining, busy>>
    /\ UNCHANGED <<indexerVars, pipeVars, jobVars, lockVars, searchVars>>

\* Lines 677-680: the event is set and the thread, when alive, is joined.
StopSet ==
    /\ ~joining /\ sleft.controls > 0
    /\ stop_event' = TRUE
    /\ stopped' = TRUE
    /\ joining' = TRUE
    /\ sleft' = [sleft EXCEPT !.controls = @ - 1]
    /\ UNCHANGED <<thread, loop, busy>>
    /\ UNCHANGED <<indexerVars, pipeVars, jobVars, lockVars, searchVars>>

\* Line 680: join returns when the thread has ended, or after 5 seconds
\* while the thread is on its way into a cycle or in one.  A thread in
\* wait ends at once when the event is set.
StopReturn ==
    /\ joining
    /\ Alive(thread) => loop[thread] # "waiting"
    /\ joining' = FALSE
    /\ UNCHANGED <<stop_event, thread, loop, stopped, busy, sleft>>
    /\ UNCHANGED <<indexerVars, pipeVars, jobVars, lockVars, searchVars>>

\* Lines 663 and 665: run_index_cycle(force=False); the call returns at
\* once ("Cycle already running") when another cycle holds _cycle_lock.
LoopCall(t) ==
    /\ loop[t] \in {"started", "ticked"}
    /\ loop' = [loop EXCEPT ![t] = IF busy THEN "waiting" ELSE "cycle"]
    /\ UNCHANGED <<stop_event, thread, stopped, joining, busy, sleft>>
    /\ UNCHANGED <<indexerVars, pipeVars, jobVars, lockVars, searchVars>>

\* The cycle returns and the loop enters _stop_event.wait (line 664).
LoopReturn(t) ==
    /\ loop[t] = "cycle"
    /\ loop' = [loop EXCEPT ![t] = "waiting"]
    /\ UNCHANGED <<stop_event, thread, stopped, joining, busy, sleft>>
    /\ UNCHANGED <<indexerVars, pipeVars, jobVars, lockVars, searchVars>>

\* Line 664: the interval has passed with the event clear; wait returns
\* False.
LoopTick(t) ==
    /\ loop[t] = "waiting" /\ ~stop_event /\ sleft.ticks > 0
    /\ loop' = [loop EXCEPT ![t] = "ticked"]
    /\ sleft' = [sleft EXCEPT !.ticks = @ - 1]
    /\ UNCHANGED <<stop_event, thread, stopped, joining, busy>>
    /\ UNCHANGED <<indexerVars, pipeVars, jobVars, lockVars, searchVars>>

\* Line 664: the event is set; wait returns True and the loop ends.
LoopExit(t) ==
    /\ loop[t] = "waiting" /\ stop_event
    /\ loop' = [loop EXCEPT ![t] = "dead"]
    /\ UNCHANGED <<stop_event, thread, stopped, joining, busy, sleft>>
    /\ UNCHANGED <<indexerVars, pipeVars, jobVars, lockVars, searchVars>>

\* reindex and the other callers of run_index_cycle (line 1157): a cycle
\* of theirs begins when no cycle is running, and ends.
OtherBegin ==
    /\ ~busy /\ sleft.others > 0
    /\ \A t \in Threads : loop[t] # "cycle"
    /\ busy' = TRUE
    /\ sleft' = [sleft EXCEPT !.others = @ - 1]
    /\ UNCHANGED <<stop_event, thread, loop, stopped, joining>>
    /\ UNCHANGED <<indexerVars, pipeVars, jobVars, lockVars, searchVars>>

OtherEnd ==
    /\ busy
    /\ busy' = FALSE
    /\ UNCHANGED <<stop_event, thread, loop, stopped, joining, sleft>>
    /\ UNCHANGED <<indexerVars, pipeVars, jobVars, lockVars, searchVars>>

SchedNext ==
    \/ Start
    \/ StopSet
    \/ StopReturn
    \/ \E t \in Threads : LoopCall(t)
    \/ \E t \in Threads : LoopReturn(t)
    \/ \E t \in Threads : LoopTick(t)
    \/ \E t \in Threads : LoopExit(t)
    \/ OtherBegin
    \/ OtherEnd

SchedSpec == Init /\ [][SchedNext]_vars

\* ------------------------------------------------------------ properties
AtSave == holder # "none" /\ pc[holder] = "save"
Routine == ~cyc.force /\ ~Targeted
Quiet == touched = {} /\ ~otherChange
InBody(c) == pc[c] \in {"files", "save", "except"}
Processable(f) == InCatalog(f) /\ Selected(f) /\ fstate[f] = "ok"
\* The record the cycle started with is indexed at the present signature.
WasCurrent(f) ==
    /\ f \in DOMAIN docs0
    /\ docs0[f].status = "indexed"
    /\ docs0[f].signature = sig[f]
SameButMetadata(a, b) == [a EXCEPT !.study_id = 0] = [b EXCEPT !.study_id = 0]
\* The binary-source files the running cycle has to extract.
Needed == {f \in Files : Processable(f) /\ ~IsText(f) /\ (cyc.force \/ ~WasCurrent(f))}
PendingIn(d) == {k \in DOMAIN d : d[k].status = "pending"}
AllRecords ==
    {index.documents[k] : k \in DOMAIN index.documents}
      \cup {disk.documents[k] : k \in DOMAIN disk.documents}
      \cup {cyc.documents[k] : k \in DOMAIN cyc.documents}

C1_Mutex ==
    /\ Cardinality({c \in Callers : InBody(c)}) <= 1
    /\ \A c \in Callers : InBody(c) => holder = c
C1_RejectedStep == \E c \in Callers : pc[c] = "idle" /\ pc'[c] = "returned"

\* C1: at most one caller is inside the cycle body, the lock is held exactly
\* while one is, and a call that finds the lock taken returns without
\* changing the index, the artifact or the running cycle.
C1_CyclesNeverOverlap ==
    /\ []C1_Mutex
    /\ [][C1_RejectedStep => UNCHANGED <<index, disk, cyc, holder>>]_vars
C1_Witness ==
    /\ holder = "bg" /\ pc["bg"] = "files" /\ cyc.pos > 1
    /\ pc["api"] = "returned"

C2_RecordOk(r) ==
    /\ r.status \in {"indexed", "failed", "pending"}
    /\ r.status = "indexed" =>
         r.text # "" /\ r.extractor \in {"native_text", "marker", "pdftotext", "tesseract"}
    /\ r.status = "failed" => r.text = "" /\ r.error # Null
    /\ r.status = "pending" => r.text = "" /\ r.error = ThrottleReason

\* C2: every record (in memory, in the artifact, in the map of the running
\* cycle) that is indexed has text and a real extractor, every failed record
\* has no text and an error, every pending record has no text and the
\* throttling reason as error.
C2_RecordInvariant == \A r \in AllRecords : C2_RecordOk(r)
C2_Witness ==
    /\ holder = "none"
    /\ \E a, b, c \in DOMAIN disk.documents :
         /\ disk.documents[a].status = "indexed"
         /\ disk.documents[b].status = "failed"
         /\ disk.documents[c].status = "pending"

\* C3 as claimed: a non-forced cycle that follows a cycle with nothing
\* changed in between (every file of the catalog has its record) invokes no
\* extraction and leaves every record the same but for the metadata.
C3_Idempotent ==
    (AtSave /\ ~cyc.force /\ Quiet /\ SearchableKeys \subseteq DOMAIN docs0) =>
        /\ calls = {}
        /\ DOMAIN index.documents = DOMAIN docs0
        /\ \A k \in DOMAIN docs0 : SameButMetadata(index.documents[k], docs0[k])

\* C3 amended: a non-forced cycle invokes no extraction for a file whose
\* record is indexed at the present signature of the file, and leaves that
\* record the same but for the metadata.
C3_IndexedIdempotent ==
    /\ (holder # "none" /\ ~cyc.force) =>
          \A f \in calls : ~WasCurrent(f)
    /\ (AtSave /\ ~cyc.force) =>
          \A f \in Files : (Processable(f) /\ WasCurrent(f)) =>
              /\ f \in DOMAIN index.documents
              /\ SameButMetadata(index.documents[f], docs0[f])
              /\ index.documents[f].study_id = study[PatientOf(f)]
C3_Witness ==
    /\ AtSave /\ ~cyc.force /\ Quiet /\ SearchableKeys \subseteq DOMAIN docs0
    /\ \E f, g \in Files : Processable(f) /\ WasCurrent(f) /\ g \in calls

\* C4: a routine cycle that finds more binary-source files to extract than
\* the cap invokes extraction for exactly cap of them and leaves a pending
\* record for each of the others.
C4_Throttle ==
    (AtSave /\ Routine /\ Cardinality(Needed) > limit) =>
        /\ Cardinality(calls \cap Needed) = limit
        /\ {f \in calls : ~IsText(f)} \subseteq Needed
        /\ Cardinality(Needed \ calls) = Cardinality(Needed) - limit
        /\ \A f \in Needed \ calls : index.documents[f].status = "pending"
C4_Witness ==
    /\ AtSave /\ Routine /\ Cardinality(Needed) > limit
    /\ \E f \in calls : index.documents[f].status = "failed" /\ ~IsText(f)

C6_Eviction ==
    AtSave =>
        \A k \in DOMAIN docs0 : ~InCatalog(k) =>
            IF Targeted
            THEN k \in DOMAIN index.documents /\ index.documents[k] = docs0[k]
            ELSE k \notin DOMAIN index.documents
C6_Witness ==
    /\ AtSave /\ ~Targeted
    /\ \E k \in DOMAIN docs0 : ~InCatalog(k) /\ k \notin DOMAIN index.documents

\* C7 as claimed: when exactly one file changed since the last cycle, a
\* non-forced cycle invokes extraction for that file and for no other, and
\* the record of the file carries the new signature.
C7_Stale ==
    (AtSave /\ ~cyc.force /\ ~otherChange /\ Cardinality(touched) = 1
       /\ SearchableKeys \subseteq DOMAIN docs0) =>
        /\ touched \subseteq calls
        /\ calls \subseteq touched
        /\ \A f \in touched : f \in DOMAIN index.documents
                                /\ index.documents[f].signature = sig[f]

\* C7 amended: a non-forced cycle that selects a changed file records the
\* new signature for it; it invokes extraction for the file unless it is a
\* routine cycle whose cap is used up (the record is then pending); and it
\* invokes extraction for no file whose record is indexed at the present
\* signature.
C7_StaleReextracted ==
    (AtSave /\ ~cyc.force) =>
        /\ \A f \in touched : Processable(f) =>
              /\ f \in DOMAIN index.documents
              /\ index.documents[f].signature = sig[f]
              /\ \/ f \in calls
                 \/ /\ index.documents[f].status = "pending"
                    /\ Routine /\ ~IsText(f)
                    /\ Cardinality({g \in calls : ~IsText(g)}) >= limit
        /\ \A g \in calls : ~WasCurrent(g)
C7_Witness ==
    /\ AtSave /\ ~cyc.force /\ ~otherChange /\ Cardinality(touched) = 1
    /\ \E f \in touched : f \in calls /\ f \in DOMAIN docs0
                            /\ docs0[f].status = "indexed"
                            /\ index.documents[f].signature = sig[f]

C8_HandlerStep ==
    /\ holder # "none" /\ pc[holder] = "except"
    /\ holder' = "none" /\ disk' = index'

\* C8 as claimed: when the handler of an aborted cycle has written the
\* artifact, the error is recorded and the records the cycle had written
\* before the exception are in the index and in the artifact.
C8_AbortKeepsRecords ==
    [][C8_HandlerStep =>
         /\ index'.last_cycle_error = cyc.exc
         /\ index'.documents = cyc.documents
         /\ disk'.documents = cyc.documents]_vars

\* C9 as claimed: no failure inside a cycle ends the background loop.
C9_LoopSurvives == pc["bg"] # "dead"

\* C10 as claimed: until the running cycle puts its map into the index, the
\* documents a reader sees are those of before the cycle.
C10_NoPrematureState == InLoop => index.documents = docs0

\* C12 as claimed: once the retry in positional style has succeeded, the
\* shared mode is the positional one and stays it, and every call of the
\* primary tool that begins afterwards makes its first attempt in
\* positional style.
C12_ModeRemembered ==
    /\ probed => marker_mode = POSITIONAL_OUTPUT_DIR
    /\ \A c \in PipeCallers :
          (pipe[c].after /\ pipe[c].styles # <<>>) =>
              pipe[c].styles[1] = POSITIONAL_OUTPUT_DIR

C13_CallOk(call) ==
    IF call.ext \in TEXT_EXTENSIONS
    THEN call.tools = <<"native_text">> /\ call.out.extractor = "native_text"
    ELSE IF call.ext \in MARKER_SUPPORTED_EXTENSIONS
    THEN /\ call.tools[1] = "marker"
         /\ Len(call.tools) = (IF call.mk.text = "" THEN 2 ELSE 1)
         /\ Len(call.tools) = 2 =>
               call.tools[2] = (IF call.ext = ".pdf" THEN "pdftotext" ELSE "tesseract")
         /\ call.out.text # "" =>
               /\ call.out.extractor = call.tools[Len(call.tools)]
               /\ call.out.error = Null
         /\ call.out.text = "" =>
               /\ call.out.extractor = "marker"
               /\ call.out.error = call.mk.error \o "; " \o ToolFail.error
    ELSE /\ call.tools = <<>>
         /\ call.out.extractor = "unsupported"
         /\ call.out.text = ""

\* C13: a finished call on a plain-text file has used the native read alone;
\* on an OCR-document extension it has invoked the primary tool first and,
\* exactly when that gave no text, one fallback (pdftotext for .pdf,
\* tesseract otherwise); the extractor names the tool whose text is
\* returned, a double failure carries both errors; an unsupported extension
\* has invoked no tool and reports extractor "unsupported".  A call still
\* running has invoked the fallback only after the primary tool gave no text.
C13_ToolOrder ==
    \A c \in PipeCallers :
        /\ pipe[c].pc = "done" => C13_CallOk(pipe[c])
        /\ pipe[c].pc = "fallback" => pipe[c].mk.text = "" /\ pipe[c].tools = <<"marker">>
        /\ pipe[c].pc \in {"marker", "retry"} => pipe[c].tools = <<"marker">>
C13_Witness ==
    /\ pipe["cycle"].pc = "done" /\ pipe["cycle"].ext = ".pdf"
    /\ pipe["cycle"].tools = <<"marker", "pdftotext">>
    /\ pipe["cycle"].out.extractor = "pdftotext"
    /\ pipe["worker"].pc = "done" /\ pipe["worker"].ext = ".png"
    /\ pipe["worker"].tools = <<"marker", "tesseract">>
    /\ pipe["worker"].out.text = ""

\* C11: while the worker of the job manager runs the extraction body it
\* does not hold the manager's lock, and nobody does on its behalf; while
\* the index cycle runs an extraction the cycle thread does not hold the
\* state lock; the worker holds its lock only between marking a job and
\* the end of that block, the cycle thread holds the state lock only in
\* the bookkeeping, snapshot, commit and persistence parts.
C11_NoLockWhileExtracting ==
    /\ wpc = "extract" => jlock = "none"
    /\ cseg \in {"extracting", "catalog", "writing"} => slock # "cycle"
    /\ jlock = "worker" => wpc = "marked"
    /\ slock = "cycle" => cseg \in CycleLocked
C11_Witness ==
    /\ wpc = "extract" /\ jlock = "none"
    /\ cseg = "extracting" /\ slock = "reader"

\* ---------------------------------------------------------------------
\* The job manager (JobSpec).

C14_ReviewOk(id, job) ==
    /\ job.status # "completed" => job.review = NoReview
    /\ job.status = "completed" =>
          job.review.status \in {"pending_review", "accepted", "rejected"}
    /\ job.status = "completed" /\ id \notin decided => job.review.status = "pending_review"
    /\ job.review.status = "pending_review" => job.review.decision = Null
    /\ job.review.status \in {"accepted", "rejected"} =>
          /\ id \in decided
          /\ job.review.decision = job.review.status
          /\ job.review.reviewed_at = Stamp

\* C14: in memory and in the job log, a job that is not completed has the
\* review not_ready with no decision; a completed job has the review
\* pending_review as long as no set_review call has gone through for it,
\* and accepted or rejected only after one, with that decision recorded.
C14_ReviewInvariant ==
    /\ \A id \in DOMAIN jobs : C14_ReviewOk(id, jobs[id])
    /\ \A id \in DOMAIN jlog.jobs : C14_ReviewOk(id, jlog.jobs[id])

\* With no failed write: a job reviewed, retried and completed again is
\* pending review, next to a job that failed.
C14_Witness ==
    /\ left.faults = MaxLogFaults
    /\ \E a, b \in DOMAIN jobs :
          /\ jobs[a].status = "completed" /\ a \in decided
          /\ jobs[a].review.status = "pending_review"
          /\ jobs[b].status = "failed" /\ jobs[b].review = NoReview

\* The kinds of error of section 7 of the design, as set_review raises
\* them: the two ValueErrors differ in their message only.
C15_Kind(r) ==
    IF r.raised = "KeyError" THEN "not-found"
    ELSE IF r.raised = "ValueError" /\ r.message = DecisionError THEN "invalid-argument"
    ELSE IF r.raised = "ValueError" /\ r.message = NotCompletedError THEN "invalid-state"
    ELSE "other"

C15_Validation == {"not-found", "invalid-argument", "invalid-state"}

\* A step of a set_review call with this id and decision.
C15_Call(id, d) ==
    \/ SetReviewInvalid(id, d)
    \/ \E n \in NoteInputs, pl \in PayloadInputs : SetReview(id, d, n, pl)

C15_BadDecision(d) == Normalized(d) \notin {"accepted", "rejected"}
C15_NotCompleted(id) == id \in DOMAIN jobs /\ jobs[id].status # "completed"

C15_AsClaimed(id, d) ==
    /\ ret'.raised = Null => id \in DOMAIN jobs /\ jobs[id].status = "completed"
    /\ C15_NotCompleted(id) => C15_Kind(ret') = "invalid-state"
    /\ id \notin DOMAIN jobs => C15_Kind(ret') = "not-found"
    /\ C15_BadDecision(d) => C15_Kind(ret') = "invalid-argument"
    /\ C15_Kind(ret') \in C15_Validation => UNCHANGED <<jobs, jlog, queue>>

C15_InOrder(id, d) ==
    /\ ret'.raised = Null =>
          /\ id \in DOMAIN jobs /\ jobs[id].status = "completed" /\ ~C15_BadDecision(d)
          /\ jobs'[id].review.status = Normalized(d)
          /\ jlog' = Saved(jobs')
    /\ id = BlankId => C15_Kind(ret') = "not-found"
    /\ id # BlankId /\ C15_BadDecision(d) => C15_Kind(ret') = "invalid-argument"
    /\ id # BlankId /\ ~C15_BadDecision(d) /\ id \notin DOMAIN jobs =>
          C15_Kind(ret') = "not-found"
    /\ ~C15_BadDecision(d) /\ C15_NotCompleted(id) => C15_Kind(ret') = "invalid-state"
    /\ C15_Kind(ret') \in C15_Validation => UNCHANGED <<jobs, jlog, queue>>

C16_Call(id) == RetryJobInvalid(id) \/ RetryJob(id) \/ RetryJobWriteFails(id)

C16_AsClaimed(id) ==
    /\ id \in DOMAIN jobs =>
          /\ jobs'[id].status = "queued"
          /\ jobs'[id].result = Null /\ jobs'[id].error = Null
          /\ jobs'[id].started_at = Null /\ jobs'[id].finished_at = Null
          /\ jobs'[id].review = NoReview
          /\ id \in DOMAIN jlog'.jobs /\ jlog'.jobs[id] = jobs'[id]
          /\ queue' = Append(queue, id)
    /\ id \notin DOMAIN jobs =>
          /\ ret'.raised = "KeyError"
          /\ UNCHANGED <<jobs, jlog, queue>>

\* C16 as claimed: a retry_job call on a known id leaves the job queued
\* with result, error and both timestamps null and the review reset, has
\* that state in the job log and has put the id on the queue; on an
\* unknown id it raises not-found and changes nothing.
C16_RetryResets ==
    [][\A id \in IdInputs : C16_Call(id) => C16_AsClaimed(id)]_vars

\* The worker takes an id off the queue.
C17_Dequeue == wpc = "idle" /\ queue # <<>> /\ queue' = Tail(queue) /\ left' = left

C17_Queued(id) == id \in DOMAIN jobs /\ jobs[id].status = "queued"

\* The worker ends the processing of a job.
C17_Finalize == wpc = "final" /\ wpc' # "final" /\ left' = left

C18_RestartStep == left'.restarts < left.restarts

C18_InQueue(q, id) == \E i \in 1..Len(q) : q[i] = id

C18_Requeued ==
    \A id \in DOMAIN jlog.jobs :
        jlog.jobs[id].status \in {"queued", "processing"} =>
            /\ id \in DOMAIN jobs' /\ jobs'[id].status = "queued"
            /\ C18_InQueue(queue', id)

\* C18 as claimed: wherever the process stops, the manager constructed
\* next has every job that create_job has ever returned, and has every
\* job that the log held as queued or processing in status queued with
\* its id on the queue.
C18_CrashRecovery ==
    [][C18_RestartStep => returned \subseteq DOMAIN jobs' /\ C18_Requeued]_vars

\* A step of a create_job call.
C19_Call ==
    \E sec \in SectionInputs, file \in FileInputs :
        CreateJobInvalid(sec, file) \/ CreateJob(sec, file) \/ CreateJobWriteFails(sec, file)

C19_Succeeds ==
    /\ ret'.raised = Null
    /\ ret'.id \notin DOMAIN jobs /\ ret'.id \notin returned
    /\ DOMAIN jobs' = DOMAIN jobs \cup {ret'.id}
    /\ \A id \in DOMAIN jobs : jobs'[id] = jobs[id]
    /\ jobs'[ret'.id].status = "queued" /\ jobs'[ret'.id].review.status = "not_ready"
    /\ jlog' = Saved(jobs')
    /\ queue' = Append(queue, ret'.id)

C19_Rejects ==
    /\ ret'.raised = "ValueError"
    /\ ret'.message \in {SectionError, FileRefError, NoFileError, OutsideError}
    /\ UNCHANGED <<jobs, jlog, queue>>

\* C19 as claimed: a create_job call either returns, with exactly one new
\* job of a fresh id stored as queued and not_ready, written to the log
\* and enqueued once, or raises invalid-argument with no job stored,
\* nothing written and nothing enqueued.
C19_CreateAllOrNothing ==
    [][C19_Call => C19_Succeeds \/ C19_Rejects]_vars

C20_FinalizedOk(id) ==
    /\ jobs'[id].status \in {"completed", "failed"}
    /\ jobs'[id].status = wjob.status
    /\ wjob.error = ExceptionText => jobs'[id].status = "failed" /\ jobs'[id].error = ExceptionText
    /\ jobs'[id].finished_at = Stamp
    /\ jobs'[id].review.status = "pending_review" <=> jobs'[id].status = "completed"
    /\ id \in DOMAIN jlog'.jobs /\ jlog'.jobs[id] = jobs'[id]
    /\ wpc' = "idle"

\* C20 as claimed: a job is in status processing only while the worker is
\* on it, and the step that ends the processing leaves the job completed
\* or failed (failed with the message of the exception when the body
\* raised), with finished_at set, the review pending_review exactly when
\* completed, the job written to the log and the worker back at the
\* queue.
C20_AlwaysFinalized ==
    [][/\ \A id \in DOMAIN jobs' : jobs'[id].status = "processing" => WorkerOn(id)'
       /\ C17_Finalize => C20_FinalizedOk(wjob.id)]_vars

\* ---------------------------------------------------------------------
\* The indexer again (Spec).

\* C25: a cycle that is forced or targeted writes no pending record (the
\* pending records in its map are those it started with, untouched) and,
\* when it has gone through the catalog, has invoked extraction for every
\* selected file that needed it and left none of them pending, however
\* many scans that is.
C25_CapOnlyRoutine ==
    /\ (holder # "none" /\ ~Routine) =>
          \A k \in PendingIn(cyc.documents) :
              k \in DOMAIN docs0 /\ cyc.documents[k] = docs0[k]
    /\ (AtSave /\ ~Routine) =>
          \A f \in Files : Processable(f) =>
              /\ index.documents[f].status # "pending"
              /\ (cyc.force \/ ~WasCurrent(f)) => f \in calls

\* A targeted cycle that is not forced has extracted more scans than the
\* cap.
C25_Witness ==
    /\ AtSave /\ ~cyc.force /\ Targeted
    /\ Cardinality({f \in calls : ~IsText(f)}) > limit

C30_Matches(f) ==
    /\ cyc.target_patient = NoTarget \/ PatientOf(f) = cyc.target_patient
    /\ cyc.target_file = NoTarget \/ f = cyc.target_file

C30_AsBefore(d, f) == (f \in DOMAIN d <=> f \in DOMAIN docs0) /\ (f \in DOMAIN d => d[f] = docs0[f])

\* C30: all through a targeted cycle, forced or not, and when it has put
\* its map into the index, a file that does not match the target has had
\* no extraction invoked and has the record it had when the cycle began,
\* or none if it had none, in the map of the cycle and in the index.
C30_TargetedFrame ==
    (holder # "none" /\ Targeted) =>
        \A f \in Files : ~C30_Matches(f) =>
            /\ f \notin calls
            /\ C30_AsBefore(cyc.documents, f)
            /\ C30_AsBefore(index.documents, f)

\* A cycle targeted at a file has extracted it; the record of a file that
\* left the vault and the missing record of another file are as before.
C30_Witness ==
    /\ AtSave /\ cyc.target_file # NoTarget /\ cyc.target_file \in calls
    /\ \E f, g \in Files :
          /\ ~C30_Matches(f) /\ f \in DOMAIN docs0 /\ ~InCatalog(f)
          /\ ~C30_Matches(g) /\ g \notin DOMAIN docs0 /\ InCatalog(g)

C26_Pending(f) == f \in DOMAIN index.documents /\ index.documents[f].status = "pending"

\* C26 as claimed: with the vault at rest and routine cycles following one
\* another, a document that is pending is eventually passed to the
\* extraction pipeline, whatever becomes of the other files.
C26_NoStarvation ==
    \A f \in Files : C26_Pending(f) ~> (f \in calls)

\* ---------------------------------------------------------------------
\* The job manager again (JobSpec).

C29_Consistent(job) ==
    /\ job.status \in {"completed", "failed"} =>
          job.started_at # Null /\ job.finished_at # Null
    /\ job.status = "processing" => job.started_at # Null /\ job.finished_at = Null
    /\ job.status = "queued" =>
          /\ job.started_at = Null /\ job.finished_at = Null
          /\ job.result = Null /\ job.error = Null

\* C29 as claimed: in every state a completed or failed job has both
\* timestamps, a processing job has started_at and no finished_at, and a
\* queued job has neither timestamp, no result and no error.
C29_Timestamps == \A id \in DOMAIN jobs : C29_Consistent(jobs[id])

\* The worker finalizes a job that retry_job has reset since the worker
\* marked it: the job is queued again and its id is on the queue.
C28_FinalizesRetried ==
    /\ wpc = "final" /\ wjob' = NoWork /\ left' = left
    /\ wjob.id \in DOMAIN jobs /\ jobs[wjob.id].status = "queued"

\* C28 as claimed: a retry is never lost.  The outcome of a run that was
\* in progress when retry_job returned does not become the job's result:
\* the job stays queued for the run that the retry asked for.
C28_RetryNotLost ==
    [][C28_FinalizesRetried => jobs'[wjob.id] = jobs[wjob.id]]_vars

C27_OnQueue(id) == \E i \in 1..Len(queue) : queue[i] = id

\* C27 as claimed: no queued job is stranded.  Whenever the manager lock
\* is free, the id of every queued job is on the queue.
C27_NoneStranded ==
    jlock = "none" =>
        \A id \in DOMAIN jobs : jobs[id].status = "queued" => C27_OnQueue(id)

\* ---------------------------------------------------------------------
\* Both components (PlatformSpec).

C23_FailedRecord(d) == d.status = "failed" /\ d.error = MissingError /\ d.extractor = "none"

\* The cycle has passed to the pipeline only files whose path passed the
\* check, and at its save every selected catalog file whose path fails the
\* check has the failure record.
C23_Indexer ==
    /\ holder # "none" => \A f \in calls : fstate[f] = "ok"
    /\ AtSave =>
          \A f \in Files : (InCatalog(f) /\ Selected(f) /\ fstate[f] = "missing") =>
              f \in DOMAIN cyc.documents /\ C23_FailedRecord(cyc.documents[f])

C23_PathError(u) == IF u = "missing" THEN NoFileError ELSE OutsideError

\* The worker has not called the analysis on an upload that is missing or
\* outside the uploads root.
C23_Worker ==
    (wpc = "final" /\ wjob.path # "inside") =>
        /\ ~wjob.analysed
        /\ wjob.status = "failed" /\ wjob.error = C23_PathError(wjob.path)

\* A create_job call whose upload is missing or outside the uploads root.
C23_Create(sec, file) ==
    CreateJobInvalid(sec, file) \/ CreateJob(sec, file) \/ CreateJobWriteFails(sec, file)

C23_CreateRejected(sec, file) ==
    /\ ret'.raised = "ValueError"
    /\ Normalized(sec) \in {"lab", "imaging"} =>
          ret'.message = (IF file = "nonexistent" THEN NoFileError ELSE OutsideError)
    /\ UNCHANGED <<jobs, jlog, queue>>

\* The worker finalizes a job whose upload failed the check.
C23_Finalize ==
    /\ wpc = "final" /\ wjob' = NoWork /\ left' = left
    /\ wjob.path # "inside" /\ wjob.id \in DOMAIN jobs

C23_JobFailed ==
    /\ jobs'[wjob.id].status = "failed"
    /\ jobs'[wjob.id].error = C23_PathError(wjob.path)
    /\ jobs'[wjob.id].result = Null

\* C23 as claimed: path containment.  No extraction is invoked on a file
\* whose path fails the containment check: the indexer records such a
\* catalog file as failed with the fixed error, create_job rejects such an
\* upload with invalid-argument and stores nothing, and the worker fails
\* the job without calling the analysis when the stored upload fails the
\* check at processing time.
C23_PathContainment ==
    [][/\ C23_Indexer
       /\ C23_Worker
       /\ \A sec \in SectionInputs, file \in {"nonexistent", "outside"} :
             C23_Create(sec, file) => C23_CreateRejected(sec, file)
       /\ C23_Finalize => C23_JobFailed]_vars

C23_Witness ==
    /\ wpc = "idle"
    /\ \E id \in DOMAIN jobs :
          /\ jobs[id].status = "failed" /\ jobs[id].error = OutsideError
          /\ jobs[id].started_at # Null /\ jobs[id].finished_at # Null

\* ---------------------------------------------------------------------
\* The background loop (SchedSpec).

\* A loop thread enters a cycle.
C24_BeginsCycle(t) == loop[t] # "cycle" /\ loop'[t] = "cycle"

\* The first thing a new loop thread does is its call of a routine cycle.
C24_FirstCall(t) ==
    (loop[t] = "started" /\ loop'[t] # "started") => loop'[t] = "cycle" \/ busy

\* C24 as claimed: background scheduling.  As long as stop() has not been
\* called since start(), the loop thread is alive; a new loop thread
\* goes into a cycle before its first wait (unless another caller's cycle
\* is running); once stop() has been called no loop thread begins a
\* cycle; and there is never a second live loop thread.
C24_Scheduling ==
    [][/\ (thread # NoThread /\ ~stopped) => Alive(thread)
       /\ \A t \in Threads : C24_FirstCall(t)
       /\ \A t \in Threads : C24_BeginsCycle(t) => ~stopped
       /\ Cardinality({t \in Threads : Alive(t)}) <= 1]_vars

\* The parts of C24 one by one.
C24_AliveUntilStopped == (thread # NoThread /\ ~stopped) => Alive(thread)
C24_NoCycleAfterStop == [][\A t \in Threads : C24_BeginsCycle(t) => ~stopped]_vars
C24_OneLoop == Cardinality({t \in Threads : Alive(t)}) <= 1

\* ---------------------------------------------------------------------
\* search (SearchSpec).

C22_Tokens == Tokens(searchArgs.query)
C22_Target == LowerKey(searchArgs.patient_key)
C22_Folded(d) == LowerStr(d.file_name \o <<"\n">> \o d.text)

\* The sum over the tokens of the occurrences in the folded file name
\* and text, and 5 for each token that occurs in the file name.
C22_Score(d) ==
    LET occ[i \in 0..Len(C22_Tokens)] ==
            IF i = 0 THEN 0 ELSE occ[i - 1] + Count(C22_Folded(d), C22_Tokens[i])
        inName == {i \in 1..Len(C22_Tokens) : Contains(LowerStr(d.file_name), C22_Tokens[i])}
    IN  occ[Len(C22_Tokens)] + 5 * Cardinality(inName)

\* The row is that of an indexed document of the patient asked for that
\* contains every token, with the score of the claim.
C22_RowOk(r) ==
    \E i \in 1..Len(searchArgs.documents) :
        LET d == searchArgs.documents[i]
        IN  /\ d.file_id = r.file_id
            /\ d.status = "indexed"
            /\ C22_Target # "" => LowerKey(d.patient_key) = C22_Target
            /\ \A k \in 1..Len(C22_Tokens) : Contains(C22_Folded(d), C22_Tokens[k])
            /\ r.score = C22_Score(d)
            /\ r.updated_at = d.updated_at

C22_Ordered ==
    \A i, j \in 1..Len(matches) : i < j =>
        \/ matches[i].score > matches[j].score
        \/ matches[i].score = matches[j].score /\ matches[i].updated_at >= matches[j].updated_at

C22_Cap(lim) == Min(Max(lim, 1), 200)

\* C22 as claimed: every row search returns is of an indexed document (of
\* the patient given, when one is given) whose folded file name and text
\* contain every token of the query, with the score of the claim; the
\* rows are in the order of score and then updated_at, both descending;
\* and there are at most min(max(limit, 1), 200) of them, which is the cap
\* of the code for every limit.
C22_Search ==
    /\ \A i \in 1..Len(matches) : C22_RowOk(matches[i])
    /\ C22_Ordered
    /\ Len(matches) <= C22_Cap(searchArgs.limit)
    /\ \A lim \in Limits \cup {-1, 1, 199, 200, 201} : ResultCap(lim) = C22_Cap(lim)

C22_Witness ==
    /\ searchArgs.limit = 2 /\ Len(matches) = 2
    /\ C22_Target = "p2" /\ Len(C22_Tokens) = 2
    /\ \A i \in 1..3 : searchArgs.documents[i].status = "indexed"
    /\ matches[1].score = matches[2].score /\ matches[1].score > 5
    /\ matches[1].updated_at > matches[2].updated_at
    /\ matches[1].file_id > matches[2].file_id

\* ---------------------------------------------------------------------
\* Both components (PlatformSpec): the round trip.

C21_Reloaded == LoadIndex(IndexArtifact(index))
C21_ReloadedJobs == LoadJobs(Saved(jobs))
C21_ListLimits == {0, 1, 2, 400}

\* status() and the documents search() reads are the same after the round
\* trip of the index.
C21_IndexSame ==
    /\ Status(C21_Reloaded) = Status(index)
    /\ C21_Reloaded.documents = index.documents

C21_RowReloaded(row) ==
    IF row.job.status \in {"completed", "failed"} THEN row
    ELSE [row EXCEPT !.job.status = "queued", !.job.updated_at = LoadStamp]

====
